---- MODULE Spec2Model ----
(***************************************************************************)
(* State-machine model of telegram_marketplace_bot.py: the SQLite store,   *)
(* the aiogram FSM context (state + data bag per user), the SESSIONS map   *)
(* of the session renderer, and the update handlers of the router.         *)
(*                                                                         *)
(* Conventions                                                             *)
(*  - A text is a sequence of characters, each a string.  The module is    *)
(*    ASCII: a Russian letter is written as its transliteration ("ch",     *)
(*    "Eh": one letter each), a Latin letter x as "l.x"; digits, space and *)
(*    punctuation are themselves.  The algorithms on texts (strip, lower,  *)
(*    startswith, substring, digit extraction) are the source's.           *)
(*  - Python None is 0 for ids and offsets, <<>> for texts.                *)
(*  - ev is the last handled update and what the handler answered; sent is *)
(*    the set of transport sends the last handled update made.             *)
(*  - A handler is one action.  The specifications whose name ends in Race *)
(*    split the handlers they are about at their awaits on the database    *)
(*    and run them as concurrent tasks: aiogram's polling starts one       *)
(*    asyncio task per update and the Dispatcher is built without events   *)
(*    isolation (line 572), so handlers of one user interleave there.      *)
(*  - Sends to the user whose update is being handled and to the admin are *)
(*    taken to succeed; a send to a chat partner may fail (the partner may *)
(*    have blocked the bot), which raises out of the handler.              *)
(***************************************************************************)
EXTENDS Naturals, Integers, Sequences, FiniteSets, TLC

VARIABLES
  users,       \* table users: user_id -> [city, microdistrict, muted]
  listings,    \* table listings: row id (AUTOINCREMENT) -> row
  photos,      \* table photos: sequence of [listing_id, file_id]
  favourites,  \* table favourites: sequence of [user_id, listing_id]
  chats,       \* table chats: sequence of rows, chat_id is the primary key
  messages,    \* table messages: sequence of rows in id order
  clock,       \* datetime('now') of the database
  state,       \* FSM state per user (MemoryStorage)
  data,        \* FSM data bag per user (MemoryStorage)
  SESSIONS,    \* user -> tracked session message id (0: none)
  nextMsgId,   \* per user: id of the last message the bot sent with a keyboard
  live,        \* per user: ids of the keyboard messages sent and not deleted
  ev,          \* last handled update: handler, user, arguments, answer
  sent,        \* sends made while handling the last update
  tasks,       \* in-flight handler tasks (the Race specifications)
  probe        \* inputs and result of a pure function applied (the Pure specification)

storeVars == <<users, listings, photos, favourites, chats, messages, clock>>
fsmVars == <<state, data>>
renderVars == <<SESSIONS, nextMsgId, live>>
vars == <<users, listings, photos, favourites, chats, messages, clock,
          state, data, SESSIONS, nextMsgId, live, ev, sent, tasks, probe>>

----------------------------------------------------------------------------
(* Bounds of the model *)

MaxMessages == 2
MaxListings == 3
MaxMsgId == 2
MaxLoadMore == 1
MaxProbeId == 12
MaxProbeListing == 3
MaxProbeMessages == 4
MaxLogMessages == 3
MaxRaceMessages == 6
MaxRaceListings == 4
MaxTasks == 2

(* Program constants *)

\* ADMIN_ID = 7066340788 in the source; 7 stands for it (TLC's integers are 32 bit)
ADMIN_ID == 7
PHOTO_LIMIT == 3
TITLE_MAX == 80
DESC_MAX == 150
CHAT_PAGE == 5

\* user 5 has no row in the users table at the start
NEWCOMER == 5
USERS == {2, 5, 11, ADMIN_ID}
FILE_IDS == {"f1", "f2"}
NoPhoto == "none"

----------------------------------------------------------------------------
(* Texts *)

Min(a, b) == IF a < b THEN a ELSE b

IsSpace(c) == c = " "

RECURSIVE LStrip(_)
LStrip(s) == IF s # <<>> /\ IsSpace(Head(s)) THEN LStrip(Tail(s)) ELSE s

RECURSIVE RStrip(_)
RStrip(s) ==
  IF s # <<>> /\ IsSpace(s[Len(s)]) THEN RStrip(SubSeq(s, 1, Len(s) - 1)) ELSE s

\* str.strip()
Strip(s) == RStrip(LStrip(s))

\* s[:n]
Truncate(s, n) == SubSeq(s, 1, Min(n, Len(s)))

\* str.startswith
StartsWith(s, p) == Len(p) <= Len(s) /\ SubSeq(s, 1, Len(p)) = p

\* sub in s
Contains(s, sub) ==
  \E i \in 1..(Len(s) - Len(sub) + 1) : SubSeq(s, i, i + Len(sub) - 1) = sub

\* the capital and the small letters of the Russian alphabet
UPPER ==
  <<"A", "B", "V", "G", "D", "E", "Yo", "Zh", "Z", "I", "J", "K", "L", "M", "N", "O",
    "P", "R", "S", "T", "U", "F", "H", "C", "Ch", "Sh", "Shch", "''^", "Y", "'^",
    "Eh", "Yu", "Ya">>
LOWER ==
  <<"a", "b", "v", "g", "d", "e", "yo", "zh", "z", "i", "j", "k", "l", "m", "n", "o",
    "p", "r", "s", "t", "u", "f", "h", "c", "ch", "sh", "shch", "''", "y", "'",
    "eh", "yu", "ya">>

LATIN_UPPER ==
  <<"L.A", "L.B", "L.C", "L.D", "L.E", "L.F", "L.G", "L.H", "L.I", "L.J", "L.K", "L.L",
    "L.M", "L.N", "L.O", "L.P", "L.Q", "L.R", "L.S", "L.T", "L.U", "L.V", "L.W", "L.X",
    "L.Y", "L.Z">>
LATIN_LOWER ==
  <<"l.a", "l.b", "l.c", "l.d", "l.e", "l.f", "l.g", "l.h", "l.i", "l.j", "l.k", "l.l",
    "l.m", "l.n", "l.o", "l.p", "l.q", "l.r", "l.s", "l.t", "l.u", "l.v", "l.w", "l.x",
    "l.y", "l.z">>

InSeq(c, q) == \E i \in 1..Len(q) : q[i] = c

LowerChar(c) ==
  IF InSeq(c, UPPER) THEN LOWER[CHOOSE i \in 1..Len(UPPER) : UPPER[i] = c]
  ELSE IF InSeq(c, LATIN_UPPER)
       THEN LATIN_LOWER[CHOOSE i \in 1..Len(LATIN_UPPER) : LATIN_UPPER[i] = c]
       ELSE c

\* str.lower()
Lower(s) == [i \in 1..Len(s) |-> LowerChar(s[i])]

DIGITS == <<"0", "1", "2", "3", "4", "5", "6", "7", "8", "9">>

\* str(n) for n >= 0
RECURSIVE IntToStr(_)
IntToStr(n) ==
  IF n < 10 THEN <<DIGITS[n + 1]>>
  ELSE IntToStr(n \div 10) \o <<DIGITS[(n % 10) + 1]>>

\* the first whitespace-separated word of a text
RECURSIVE FirstWord(_)
FirstWord(s) ==
  IF s = <<>> \/ IsSpace(Head(s)) THEN <<>> ELSE <<Head(s)>> \o FirstWord(Tail(s))

\* aiogram's Command(name) / CommandStart() filter on a message text
IsCommand(text, name) == FirstWord(text) = <<"/">> \o name

START == <<"l.s", "l.t", "l.a", "l.r", "l.t">>
MUTE == <<"l.m", "l.u", "l.t", "l.e">>
UNMUTE == <<"l.u", "l.n", "l.m", "l.u", "l.t", "l.e">>
MODERATE == <<"l.m", "l.o", "l.d", "l.e", "l.r", "l.a", "l.t", "l.e">>

----------------------------------------------------------------------------
(* Vocabulary and rows *)

MOSKVA == <<"M", "o", "s", "k", "v", "a">>
OMSK == <<"O", "m", "s", "k">>
NOVOE == <<"N", "o", "v", "o", "e">>
BU == <<"B", "/", "u">>
ELEKTRONIKA == <<"Eh", "l", "e", "k", "t", "r", "o", "n", "i", "k", "a">>
TELEFON == <<"T", "e", "l", "e", "f", "o", "n">>

user_row(city) == [city |-> city, microdistrict |-> <<>>, muted |-> FALSE]

listing_row(owner_id, city, microdistrict, category, condition, title, description, price, status) ==
  [owner_id |-> owner_id, city |-> city, microdistrict |-> microdistrict,
   category |-> category, condition |-> condition, title |-> title,
   description |-> description, price |-> price, status |-> status]

----------------------------------------------------------------------------
(* FSM context (aiogram FSMContext over MemoryStorage) *)

NoState == "None"
EmptyBag == [k \in {} |-> 0]

\* state.update_data(k = v)
Put(d, k, v) == (k :> v) @@ d

\* data.get(k, default)
Get(d, k, default) == IF k \in DOMAIN d THEN d[k] ELSE default

----------------------------------------------------------------------------
(* Database helper functions *)

\* is_user_muted
is_user_muted(user_id) == user_id \in DOMAIN users /\ users[user_id].muted

\* update_user_mute: UPDATE users SET muted = ? WHERE user_id = ?
update_user_mute(user_id, muted) ==
  IF user_id \in DOMAIN users
  THEN [users EXCEPT ![user_id].muted = muted]
  ELSE users

sorted2_unsorted(a, b) == <<a, b>>

\* sorted([user1, user2])
sorted2(a, b) == IF a <= b THEN <<a, b>> ELSE <<b, a>>

\* chat_id_from_users: f"{a}_{b}_{listing_id}" with a, b = sorted([user1, user2])
chat_id_from_users(user1, user2, listing_id) ==
  LET ab == sorted2(user1, user2) IN
    IntToStr(ab[1]) \o <<"_">> \o IntToStr(ab[2]) \o <<"_">> \o IntToStr(listing_id)

\* SELECT chat_id FROM chats WHERE chat_id = ?
chat_rows(tbl, chat_id) == {i \in 1..Len(tbl) : tbl[i].chat_id = chat_id}

chat_row(chat_id, user1, user2, listing_id, now) ==
  [chat_id |-> chat_id, user1_id |-> user1, user2_id |-> user2,
   listing_id |-> listing_id, last_message_time |-> now]

chats_insert_allowed_no_key(tbl, chat_id) == TRUE

\* PRIMARY KEY of table chats (line 196): an INSERT of a present chat_id raises
\* IntegrityError and inserts nothing
chats_insert_allowed(tbl, chat_id) == chat_rows(tbl, chat_id) = {}

\* ensure_chat, run without interruption
ensure_chat(tbl, chat_id, user1, user2, listing_id, now) ==
  IF chat_rows(tbl, chat_id) = {}
  THEN Append(tbl, chat_row(chat_id, user1, user2, listing_id, now))
  ELSE tbl

message_row(chat_id, sender_id, receiver_id, listing_id, text) ==
  [chat_id |-> chat_id, sender_id |-> sender_id, receiver_id |-> receiver_id,
   listing_id |-> listing_id, text |-> text, read |-> FALSE]

store_message_no_read(msgs, chat_id, sender_id, receiver_id, listing_id, text) ==
  Append(msgs, message_row(chat_id, sender_id, receiver_id, listing_id, text))

\* an UPDATE that writes the flag of every row of the chat: read for the
\* sender's incoming rows, unread for the others
store_message_rewriting_read(msgs, chat_id, sender_id, receiver_id, listing_id, text) ==
  LET ins == Append(msgs, message_row(chat_id, sender_id, receiver_id, listing_id, text))
  IN [i \in 1..Len(ins) |->
        IF ins[i].chat_id = chat_id
        THEN [ins[i] EXCEPT !.read = (ins[i].receiver_id = sender_id)]
        ELSE ins[i]]

\* store_message, table messages: the INSERT, then
\* UPDATE messages SET read = 1 WHERE chat_id = ? AND receiver_id = sender
store_message(msgs, chat_id, sender_id, receiver_id, listing_id, text) ==
  LET ins == Append(msgs, message_row(chat_id, sender_id, receiver_id, listing_id, text))
  IN [i \in 1..Len(ins) |->
        IF ins[i].chat_id = chat_id /\ ins[i].receiver_id = sender_id
        THEN [ins[i] EXCEPT !.read = TRUE]
        ELSE ins[i]]

\* an UPDATE of last_message_time without the WHERE clause
touch_every_chat(tbl, chat_id, now) ==
  [i \in 1..Len(tbl) |-> [tbl[i] EXCEPT !.last_message_time = now]]

\* store_message, table chats: UPDATE chats SET last_message_time = now WHERE chat_id = ?
touch_chat(tbl, chat_id, now) ==
  [i \in 1..Len(tbl) |->
     IF tbl[i].chat_id = chat_id THEN [tbl[i] EXCEPT !.last_message_time = now]
     ELSE tbl[i]]

\* the subsequence of the rows of s that satisfy the test, in order
RECURSIVE SelectRows(_, _)
SelectRows(s, chat_id) ==
  IF s = <<>> THEN <<>>
  ELSE IF Head(s).chat_id = chat_id
       THEN <<Head(s)>> \o SelectRows(Tail(s), chat_id)
       ELSE SelectRows(Tail(s), chat_id)

Reverse(s) == [i \in 1..Len(s) |-> s[Len(s) + 1 - i]]

\* LIMIT ? OFFSET ? on an ordered result
LimitOffset(s, limit, offset) ==
  SubSeq(s, offset + 1, Min(Len(s), offset + limit))

\* a fetch that leaves the rows in the order of the SELECT
fetch_messages_unreversed(msgs, chat_id, offset, limit, reverse) ==
  LET asc == SelectRows(msgs, chat_id)
      ordered == IF reverse THEN Reverse(asc) ELSE asc
  IN LimitOffset(ordered, limit, offset)

\* fetch_messages
fetch_messages(msgs, chat_id, offset, limit, reverse) ==
  LET asc == SelectRows(msgs, chat_id)
      ordered == IF reverse THEN Reverse(asc) ELSE asc
      rows == LimitOffset(ordered, limit, offset)
  IN IF reverse THEN Reverse(rows) ELSE rows

----------------------------------------------------------------------------
(* Observers *)

Ev(h, u, listing, answer) == [h |-> h, u |-> u, listing |-> listing, answer |-> answer]

Sent(to, kind, ref) == [to |-> to, kind |-> kind, ref |-> ref]

NoEv == Ev("none", 0, 0, "")

----------------------------------------------------------------------------
(* Session renderer *)

\* ensure_session_message can run: a new message is only sent below the bound
CanRender(u, editOk) == (SESSIONS[u] # 0 /\ editOk) \/ nextMsgId[u] < MaxMsgId

\* a renderer that sends the new message and returns its id without tracking it
ensure_session_message_untracked(u, editOk) ==
  IF SESSIONS[u] # 0 /\ editOk
  THEN <<SESSIONS, nextMsgId, SESSIONS[u]>>
  ELSE <<SESSIONS, [nextMsgId EXCEPT ![u] = nextMsgId[u] + 1], nextMsgId[u] + 1>>

\* ensure_session_message: edit the tracked message; without one, or when
\* bot.edit_message_text raises, send a new message and track it. The value is
\* SESSIONS and the message ids after the call, and the id returned
ensure_session_message(u, editOk) ==
  IF SESSIONS[u] # 0 /\ editOk
  THEN <<SESSIONS, nextMsgId, SESSIONS[u]>>
  ELSE <<[SESSIONS EXCEPT ![u] = nextMsgId[u] + 1],
         [nextMsgId EXCEPT ![u] = nextMsgId[u] + 1],
         nextMsgId[u] + 1>>

\* the keyboard messages in the user's chat after ensure_session_message: an
\* edit replaces the content of the tracked message; a message whose edit
\* was refused (e.g. "message is not modified") stays where it is
live_after_render(u, editOk) ==
  IF SESSIONS[u] # 0 /\ editOk THEN live
  ELSE [live EXCEPT ![u] = @ \cup {nextMsgId[u] + 1}]

\* one call of ensure_session_message whose edit, if one is tried, succeeds
\* (editOk) or raises
RenderWith(u, editOk) ==
  /\ CanRender(u, editOk)
  /\ SESSIONS' = ensure_session_message(u, editOk)[1]
  /\ nextMsgId' = ensure_session_message(u, editOk)[2]
  /\ live' = live_after_render(u, editOk)

Render(u) == \E editOk \in BOOLEAN : RenderWith(u, editOk)

----------------------------------------------------------------------------
(* Routing: the router tries its handlers in the order they are registered *)

\* the message handler that takes a message of user u with this text
MessageRoute(u, text) ==
  IF IsCommand(text, START) THEN "cmd_start"
  ELSE IF state[u] = "Registration:awaiting_city" THEN "process_city"
  ELSE IF state[u] = "Registration:awaiting_microdistrict" THEN "process_microdistrict"
  ELSE IF state[u] = "ChangeLocation:awaiting_city" THEN "settings_process_city"
  ELSE IF state[u] = "ChangeLocation:awaiting_microdistrict"
       THEN "settings_process_microdistrict"
  ELSE IF state[u] = "SearchStates:search_query" THEN "perform_search"
  ELSE IF state[u] = "EditListing:editing_photos" THEN "handle_edit_photos"
  ELSE IF state[u] = "EditListing:editing_price" THEN "handle_edit_price"
  ELSE IF state[u] = "EditListing:editing_category" THEN "handle_edit_category"
  ELSE IF state[u] = "EditListing:editing_description" THEN "handle_edit_description"
  ELSE IF state[u] = "NewListing:waiting_for_photo" THEN "handle_listing_photo"
  ELSE IF state[u] = "NewListing:waiting_for_category" THEN "handle_listing_category"
  ELSE IF state[u] = "NewListing:waiting_for_condition" THEN "handle_listing_condition"
  ELSE IF state[u] = "NewListing:waiting_for_price" THEN "handle_listing_price"
  ELSE IF state[u] = "NewListing:waiting_for_title" THEN "handle_listing_title"
  ELSE IF state[u] = "NewListing:waiting_for_description"
       THEN "handle_listing_description"
  ELSE IF state[u] = "ChatStates:chatting" THEN "handle_chat_message"
  ELSE IF IsCommand(text, MODERATE) THEN "cmd_moderate"
  ELSE IF IsCommand(text, MUTE) THEN "cmd_mute"
  ELSE IF IsCommand(text, UNMUTE) THEN "cmd_unmute"
  ELSE "unhandled"

----------------------------------------------------------------------------
(* Inputs *)

HI == <<"h", "i">>

\* message texts sent in a chat: none (a photo), blank, plain, padded
ChatTexts == {<<>>, <<" ">>, HI, <<" ">> \o HI}

Registered == DOMAIN users

ListingIds == 1..Len(listings)

----------------------------------------------------------------------------
(* Main menu *)

\* a main menu that is never rendered
show_main_menu_nothing(u) == UNCHANGED renderVars

\* show_main_menu
show_main_menu(u) == Render(u)

\* process_back_main: callback back_main
process_back_main(u) ==
  /\ state' = [state EXCEPT ![u] = NoState]
  /\ data' = [data EXCEPT ![u] = EmptyBag]
  /\ show_main_menu(u)
  /\ ev' = Ev("process_back_main", u, 0, "")
  /\ sent' = {}
  /\ UNCHANGED <<storeVars, tasks, probe>>

----------------------------------------------------------------------------
(* Registration and change of location *)

\* [А-Яа-яЁё\s\-]
IsCityChar(c) == InSeq(c, UPPER) \/ InSeq(c, LOWER) \/ IsSpace(c) \/ c = "-"

\* a city step that takes every text
city_pattern_match_any(s) == TRUE

\* CITY_PATTERN.match(city): ^[А-Яа-яЁё\s\-]{2,50}$
city_pattern_match(s) ==
  Len(s) >= 2 /\ Len(s) <= 50 /\ \A i \in 1..Len(s) : IsCityChar(s[i])

\* MICRODISTRICT_PATTERN.match(microdistrict): ^[А-Яа-яЁё0-9\s\-]{2,50}$
microdistrict_pattern_match(s) ==
  /\ Len(s) >= 2 /\ Len(s) <= 50
  /\ \A i \in 1..Len(s) : IsCityChar(s[i]) \/ InSeq(s[i], DIGITS)

\* get_or_create_user(user_id, city, microdistrict); <<>> stands for None:
\* COALESCE(?, column) keeps the column where the argument is None
get_or_create_user(tbl, user_id, city, microdistrict) ==
  IF user_id \in DOMAIN tbl
  THEN IF city # <<>> \/ microdistrict # <<>>
       THEN [tbl EXCEPT ![user_id].city = IF city # <<>> THEN city ELSE @,
                        ![user_id].microdistrict =
                           IF microdistrict # <<>> THEN microdistrict ELSE @]
       ELSE tbl
  ELSE (user_id :> [city |-> city, microdistrict |-> microdistrict, muted |-> FALSE])
         @@ tbl

\* an entry command without state.clear(): the bag stays, the state is only
\* written in the registration branch
cmd_start_keeping_context(u, text) ==
  /\ MessageRoute(u, text) = "cmd_start"
  /\ IF u \in DOMAIN users /\ users[u].city # <<>>
     THEN /\ show_main_menu(u)
          /\ sent' = {}
          /\ UNCHANGED fsmVars
     ELSE /\ state' = [state EXCEPT ![u] = "Registration:awaiting_city"]
          /\ sent' = {Sent(u, "prompt city", 0)}
          /\ UNCHANGED <<data, renderVars>>
  /\ ev' = Ev("cmd_start", u, 0, "")
  /\ UNCHANGED <<storeVars, tasks, probe>>

\* cmd_start: /start
cmd_start(u, text) ==
  /\ MessageRoute(u, text) = "cmd_start"
  /\ data' = [data EXCEPT ![u] = EmptyBag]
  /\ IF u \in DOMAIN users /\ users[u].city # <<>>
     THEN /\ show_main_menu(u)
          /\ state' = [state EXCEPT ![u] = NoState]
          /\ sent' = {}
     ELSE /\ state' = [state EXCEPT ![u] = "Registration:awaiting_city"]
          /\ sent' = {Sent(u, "prompt city", 0)}
          /\ UNCHANGED renderVars
  /\ ev' = Ev("cmd_start", u, 0, "")
  /\ UNCHANGED <<storeVars, tasks, probe>>

\* process_city: a message in state Registration.awaiting_city
process_city(u, text) ==
  LET city == Strip(text) IN
  /\ MessageRoute(u, text) = "process_city"
  /\ IF ~city_pattern_match(city)
     THEN /\ sent' = {Sent(u, "corrective", 0)}
          /\ UNCHANGED <<users, fsmVars>>
     ELSE /\ users' = get_or_create_user(users, u, city, <<>>)
          /\ sent' = {Sent(u, "prompt microdistrict", 0)}
          /\ data' = [data EXCEPT ![u] = Put(@, "city", city)]
          /\ state' = [state EXCEPT ![u] = "Registration:awaiting_microdistrict"]
  /\ ev' = Ev("process_city", u, 0, "")
  /\ UNCHANGED <<listings, photos, favourites, chats, messages, clock, renderVars,
                 tasks, probe>>

\* process_microdistrict: a message in state Registration.awaiting_microdistrict
process_microdistrict(u, text) ==
  LET stripped == Strip(text)
      microdistrict == IF stripped = <<"-">> THEN <<>> ELSE stripped
  IN /\ MessageRoute(u, text) = "process_microdistrict"
     /\ IF stripped # <<"-">> /\ ~microdistrict_pattern_match(stripped)
        THEN /\ sent' = {Sent(u, "corrective", 0)}
             /\ UNCHANGED <<users, fsmVars, renderVars>>
        ELSE /\ users' = get_or_create_user(users, u, Get(data[u], "city", <<>>),
                                            microdistrict)
             /\ sent' = {Sent(u, "city saved", 0)}
             /\ state' = [state EXCEPT ![u] = NoState]
             /\ data' = [data EXCEPT ![u] = EmptyBag]
             /\ show_main_menu(u)
     /\ ev' = Ev("process_microdistrict", u, 0, "")
     /\ UNCHANGED <<listings, photos, favourites, chats, messages, clock, tasks, probe>>

\* process_main_menu with callback menu_settings, and settings_menu
settings_menu(u) ==
  /\ state' = [state EXCEPT ![u] = NoState]
  /\ data' = [data EXCEPT ![u] = EmptyBag]
  /\ Render(u)
  /\ ev' = Ev("settings_menu", u, 0, "")
  /\ sent' = {}
  /\ UNCHANGED <<storeVars, tasks, probe>>

\* settings_change_city: callback settings_change_city
settings_change_city(u) ==
  /\ data' = [data EXCEPT ![u] = EmptyBag]
  /\ state' = [state EXCEPT ![u] = "ChangeLocation:awaiting_city"]
  /\ sent' = {Sent(u, "prompt city", 0)}
  /\ ev' = Ev("settings_change_city", u, 0, "")
  /\ UNCHANGED <<storeVars, renderVars, tasks, probe>>

\* settings_process_city: a message in state ChangeLocation.awaiting_city
settings_process_city(u, text) ==
  LET city == Strip(text) IN
  /\ MessageRoute(u, text) = "settings_process_city"
  /\ IF ~city_pattern_match(city)
     THEN /\ sent' = {Sent(u, "corrective", 0)}
          /\ UNCHANGED fsmVars
     ELSE /\ data' = [data EXCEPT ![u] = Put(@, "new_city", city)]
          /\ sent' = {Sent(u, "prompt microdistrict", 0)}
          /\ state' = [state EXCEPT ![u] = "ChangeLocation:awaiting_microdistrict"]
  /\ ev' = Ev("settings_process_city", u, 0, "")
  /\ UNCHANGED <<storeVars, renderVars, tasks, probe>>

\* settings_process_microdistrict: a message in state
\* ChangeLocation.awaiting_microdistrict
settings_process_microdistrict(u, text) ==
  LET stripped == Strip(text)
      microdistrict == IF stripped = <<"-">> THEN <<>> ELSE stripped
  IN /\ MessageRoute(u, text) = "settings_process_microdistrict"
     /\ IF stripped # <<"-">> /\ ~microdistrict_pattern_match(stripped)
        THEN /\ sent' = {Sent(u, "corrective", 0)}
             /\ UNCHANGED <<users, fsmVars, renderVars>>
        ELSE /\ users' = get_or_create_user(users, u, Get(data[u], "new_city", <<>>),
                                            microdistrict)
             /\ sent' = {Sent(u, "city updated", 0)}
             /\ state' = [state EXCEPT ![u] = NoState]
             /\ data' = [data EXCEPT ![u] = EmptyBag]
             /\ show_main_menu(u)
     /\ ev' = Ev("settings_process_microdistrict", u, 0, "")
     /\ UNCHANGED <<listings, photos, favourites, chats, messages, clock, tasks, probe>>

\* list_user_chats: the rows of the user's chats
list_user_chats(user_id) ==
  {i \in 1..Len(chats) : chats[i].user1_id = user_id \/ chats[i].user2_id = user_id}

\* process_main_menu with callback menu_chats, and chats_menu
chats_menu(u) ==
  /\ u \in Registered
  /\ state' = [state EXCEPT ![u] = NoState]
  /\ data' = [data EXCEPT ![u] = EmptyBag]
  /\ Render(u)
  /\ ev' = Ev("chats_menu", u, 0, "")
  /\ sent' = {}
  /\ UNCHANGED <<storeVars, tasks, probe>>

----------------------------------------------------------------------------
(* User mute/unmute commands *)

\* cmd_mute
cmd_mute(u, text) ==
  /\ MessageRoute(u, text) = "cmd_mute"
  /\ users' = update_user_mute(u, TRUE)
  /\ ev' = Ev("cmd_mute", u, 0, "")
  /\ sent' = {Sent(u, "muted", 0)}
  /\ UNCHANGED <<listings, photos, favourites, chats, messages, clock,
                 fsmVars, renderVars, tasks, probe>>

\* cmd_unmute
cmd_unmute(u, text) ==
  /\ MessageRoute(u, text) = "cmd_unmute"
  /\ users' = update_user_mute(u, FALSE)
  /\ ev' = Ev("cmd_unmute", u, 0, "")
  /\ sent' = {Sent(u, "unmuted", 0)}
  /\ UNCHANGED <<listings, photos, favourites, chats, messages, clock,
                 fsmVars, renderVars, tasks, probe>>

----------------------------------------------------------------------------
(* Chat and messaging handlers *)

chat_context(d, chat_id, partner_id, listing_id) ==
  Put(Put(Put(Put(d, "active_chat", chat_id), "partner_id", partner_id),
          "listing_id", listing_id), "offset", CHAT_PAGE)

\* start_chat: callback start_chat_{listing_id}_{owner_id}, the button of
\* view_listing, whose owner_id is the listing's owner
start_chat(u, listing_id) ==
  LET owner_id == listings[listing_id].owner_id
      chat_id == chat_id_from_users(u, owner_id, listing_id)
  IN /\ u \in Registered
     /\ listing_id \in ListingIds
     /\ IF u = owner_id
        THEN /\ ev' = Ev("start_chat", u, listing_id, "own listing")
             /\ sent' = {}
             /\ UNCHANGED <<storeVars, fsmVars, renderVars, tasks, probe>>
        ELSE /\ chats' = ensure_chat(chats, chat_id, u, owner_id, listing_id, clock)
             /\ clock' = IF chats' = chats THEN clock ELSE clock + 1
             /\ Render(u)
             /\ data' = [data EXCEPT ![u] = chat_context(@, chat_id, owner_id, listing_id)]
             /\ state' = [state EXCEPT ![u] = "ChatStates:chatting"]
             /\ ev' = Ev("start_chat", u, listing_id, "")
             /\ sent' = {}
             /\ UNCHANGED <<users, listings, photos, favourites, messages, tasks, probe>>

\* open_chat on callback data that parses to chat_id, partner_id and
\* listing_id: the handler reads neither the chats table nor the caller's part
\* in the chat
open_chat_callback(u, chat_id, partner_id, listing_id) ==
  /\ data' = [data EXCEPT ![u] = chat_context(@, chat_id, partner_id, listing_id)]
  /\ state' = [state EXCEPT ![u] = "ChatStates:chatting"]
  /\ Render(u)
  /\ ev' = Ev("open_chat", u, listing_id, "")
  /\ sent' = {}
  /\ UNCHANGED <<storeVars, tasks, probe>>

\* open_chat: callback open_chat_{chat_id}_{partner_id}_{listing_id}, a button
\* of chats_menu built from row i of list_user_chats
open_chat(u, i) ==
  /\ u \in Registered
  /\ i \in list_user_chats(u)
  /\ open_chat_callback(u, chats[i].chat_id,
                        IF chats[i].user1_id = u THEN chats[i].user2_id
                        ELSE chats[i].user1_id,
                        chats[i].listing_id)

\* load_more_messages: callback load_more_{chat_id} in state chatting
load_more_messages(u) ==
  /\ u \in Registered
  /\ state[u] = "ChatStates:chatting"
  /\ Get(data[u], "offset", 0) < CHAT_PAGE * (1 + MaxLoadMore)
  /\ Render(u)
  /\ data' = [data EXCEPT ![u] = Put(@, "offset", Get(@, "offset", 0) + CHAT_PAGE)]
  /\ ev' = Ev("load_more_messages", u, 0, "")
  /\ sent' = {}
  /\ UNCHANGED <<storeVars, state, tasks, probe>>

forward_wanted_always(partner_id) == TRUE

\* handle_chat_message, line 1506: forward to the partner if not muted
forward_wanted(partner_id) == ~is_user_muted(partner_id)

after_send_raised_rollback(before, stored) == before

\* store_message has committed (line 454) when bot.send_message to the partner
\* (line 1507) raises: the table keeps the stored row
after_send_raised(before, stored) == stored

\* handle_chat_message; delivered: whether bot.send_message to the partner
\* succeeds (when it raises, the handler ends there)
handle_chat_message_upto(u, msg_text, delivered, room) ==
  LET text == Strip(msg_text)
      chat_id == Get(data[u], "active_chat", <<>>)
      partner_id == Get(data[u], "partner_id", 0)
      listing_id == Get(data[u], "listing_id", 0)
      stored == store_message(messages, chat_id, u, partner_id, listing_id, text)
  IN /\ MessageRoute(u, msg_text) = "handle_chat_message"
     /\ IF text = <<>>
        THEN /\ delivered
             /\ ev' = Ev("handle_chat_message", u, listing_id, "ignored")
             /\ sent' = {}
             /\ UNCHANGED <<storeVars, fsmVars, renderVars, tasks, probe>>
        ELSE /\ Len(messages) < room
             /\ chats' = touch_chat(chats, chat_id, clock)
             /\ clock' = clock + 1
             /\ IF forward_wanted(partner_id)
                THEN /\ sent' = {Sent(partner_id, "forward", IF delivered THEN 1 ELSE 0)}
                     /\ IF delivered
                        THEN messages' = stored /\ Render(u)
                        ELSE /\ messages' = after_send_raised(messages, stored)
                             /\ UNCHANGED renderVars
                     /\ ev' = Ev("handle_chat_message", u, listing_id,
                                 IF delivered THEN "stored" ELSE "send raised")
                ELSE /\ delivered
                     /\ messages' = stored
                     /\ sent' = {}
                     /\ Render(u)
                     /\ ev' = Ev("handle_chat_message", u, listing_id, "stored")
             /\ UNCHANGED <<users, listings, photos, favourites, fsmVars, tasks, probe>>

handle_chat_message(u, msg_text, delivered) ==
  handle_chat_message_upto(u, msg_text, delivered, MaxMessages)

----------------------------------------------------------------------------
(* Listings: database helpers *)

CATEGORIES ==
  << <<"L", "i", "ch", "n", "y", "e", " ", "v", "e", "shch", "i">>,
     <<"T", "r", "a", "n", "s", "p", "o", "r", "t">>,
     <<"R", "a", "b", "o", "t", "a">>,
     <<"D", "l", "ya", " ", "d", "o", "m", "a", " ", "i", " ", "d", "a", "ch", "i">>,
     <<"N", "e", "d", "v", "i", "zh", "i", "m", "o", "s", "t", "'">>,
     <<"P", "r", "e", "d", "l", "o", "zh", "e", "n", "i", "e", " ", "u", "s", "l", "u", "g">>,
     <<"H", "o", "b", "b", "i", " ", "i", " ", "o", "t", "d", "y", "h">>,
     <<"Eh", "l", "e", "k", "t", "r", "o", "n", "i", "k", "a">> >>

CONDITIONS == <<NOVOE, BU>>

\* "Propustit'" (skip) and the prefix "prop" the photo steps test for
SKIP == <<"P", "r", "o", "p", "u", "s", "t", "i", "t", "'">>
PROP == <<"p", "r", "o", "p">>

\* message.text and message.text.lower().startswith("prop")
IsSkip(text) == text # <<>> /\ StartsWith(Lower(text), PROP)

IsDigit(c) == \E i \in 1..Len(DIGITS) : DIGITS[i] = c

\* re.sub(r"\D", "", text)
RECURSIVE DigitsOf(_)
DigitsOf(s) ==
  IF s = <<>> THEN <<>>
  ELSE IF IsDigit(Head(s)) THEN <<Head(s)>> \o DigitsOf(Tail(s))
       ELSE DigitsOf(Tail(s))

DigitValue(c) == (CHOOSE i \in 1..Len(DIGITS) : DIGITS[i] = c) - 1

\* int(s) of a non-empty string of digits
RECURSIVE StrToInt(_)
StrToInt(s) ==
  IF s = <<>> THEN 0
  ELSE 10 * StrToInt(SubSeq(s, 1, Len(s) - 1)) + DigitValue(s[Len(s)])

\* the digits of 2^63 - 1, the largest value of an SQLite INTEGER
SQLITE_INTEGER_MAX ==
  <<"9", "2", "2", "3", "3", "7", "2", "0", "3", "6", "8", "5", "4", "7", "7", "5", "8", "0", "7">>

\* a digit string without its leading zeros
RECURSIVE StripZeros(_)
StripZeros(s) == IF s # <<>> /\ Head(s) = "0" THEN StripZeros(Tail(s)) ELSE s

\* a <= b for digit strings of the same length
RECURSIVE DigitsLeq(_, _)
DigitsLeq(a, b) ==
  \/ a = <<>>
  \/ DigitValue(Head(a)) < DigitValue(Head(b))
  \/ Head(a) = Head(b) /\ DigitsLeq(Tail(a), Tail(b))

\* db.execute(..., (value, ...)) binds the int of a digit string: sqlite3
\* raises OverflowError for a value above 2^63 - 1
sqlite_integer_fits(digits) ==
  LET d == StripZeros(digits)
  IN \/ Len(d) < Len(SQLITE_INTEGER_MAX)
     \/ Len(d) = Len(SQLITE_INTEGER_MAX) /\ DigitsLeq(d, SQLITE_INTEGER_MAX)

\* stands for every Python int above 2^63 - 1 (Python's int is unbounded)
BEYOND_INTEGER == 2147483647

\* try: price = int(re.sub(r"\D", "", text)) except Exception: price = 0
parse_price(text) ==
  IF DigitsOf(text) = <<>> THEN 0
  ELSE IF sqlite_integer_fits(DigitsOf(text)) THEN StrToInt(DigitsOf(text))
       ELSE BEYOND_INTEGER

\* a category step that takes the text as it is
category_matches_verbatim(user_cat) == <<user_cat>>

\* matches = [cat for cat in CATEGORIES if user_cat.lower() in cat.lower()]
category_matches(user_cat) ==
  SelectSeq(CATEGORIES, LAMBDA cat : Contains(Lower(cat), Lower(user_cat)))

photo_row(listing_id, file_id) == [listing_id |-> listing_id, file_id |-> file_id]

\* add_photo for each file id of a list, in order
add_photos(tbl, listing_id, file_ids) ==
  tbl \o [i \in 1..Len(file_ids) |-> photo_row(listing_id, file_ids[i])]

\* a clear_listing_photos that deletes nothing
clear_listing_photos_nothing(tbl, listing_id) == tbl

\* clear_listing_photos: DELETE FROM photos WHERE listing_id = ?
clear_listing_photos(tbl, listing_id) ==
  SelectSeq(tbl, LAMBDA r : r.listing_id # listing_id)

\* get_listing(...)["photos"]: SELECT file_id FROM photos WHERE listing_id = ?
listing_photos(tbl, listing_id) ==
  LET rows == SelectSeq(tbl, LAMBDA r : r.listing_id = listing_id)
  IN [i \in 1..Len(rows) |-> rows[i].file_id]

\* update_listing_status: UPDATE listings SET status = ? WHERE id = ?
update_listing_status(tbl, listing_id, status) ==
  IF listing_id \in 1..Len(tbl)
  THEN [tbl EXCEPT ![listing_id].status = status]
  ELSE tbl

\* update_listing_field(listing_id, "price", value)
update_listing_price(tbl, listing_id, value) ==
  IF listing_id \in 1..Len(tbl) THEN [tbl EXCEPT ![listing_id].price = value] ELSE tbl

\* update_listing_field(listing_id, "category", value)
update_listing_category(tbl, listing_id, value) ==
  IF listing_id \in 1..Len(tbl) THEN [tbl EXCEPT ![listing_id].category = value] ELSE tbl

\* update_listing_field(listing_id, "description", value)
update_listing_description(tbl, listing_id, value) ==
  IF listing_id \in 1..Len(tbl) THEN [tbl EXCEPT ![listing_id].description = value] ELSE tbl

\* add_listing: the INSERT leaves status to its default, 'pending' (line 155)
add_listing(tbl, owner_id, city, microdistrict, category, condition, title, description, price) ==
  Append(tbl, listing_row(owner_id, city, microdistrict, category, condition, title,
                          description, price, "pending"))

----------------------------------------------------------------------------
(* Listing creation *)

\* listings_menu: process_main_menu with callback menu_listings
listings_menu(u) ==
  /\ u \in Registered
  /\ state' = [state EXCEPT ![u] = NoState]
  /\ data' = [data EXCEPT ![u] = EmptyBag]
  /\ Render(u)
  /\ ev' = Ev("listings_menu", u, 0, "")
  /\ sent' = {}
  /\ UNCHANGED <<storeVars, tasks, probe>>

\* create_listing_init: callback create_listing
create_listing_init(u) ==
  /\ u \in Registered
  /\ state' = [state EXCEPT ![u] = "NewListing:waiting_for_photo"]
  /\ data' = [data EXCEPT ![u] = EmptyBag]
  /\ ev' = Ev("create_listing_init", u, 0, "")
  /\ sent' = {Sent(u, "prompt photo", 0)}
  /\ UNCHANGED <<storeVars, renderVars, tasks, probe>>

\* handle_listing_photo; photo: the file id of the message's photo, or NoPhoto
handle_listing_photo(u, text, photo) ==
  LET collected == Get(data[u], "photos", <<>>) IN
  /\ MessageRoute(u, text) = "handle_listing_photo"
  /\ IF IsSkip(text)
     THEN /\ data' = [data EXCEPT ![u] = Put(@, "photos", collected)]
          /\ state' = [state EXCEPT ![u] = "NewListing:waiting_for_category"]
          /\ sent' = {Sent(u, "prompt category", 0)}
     ELSE IF photo # NoPhoto
     THEN IF Len(collected) < PHOTO_LIMIT
          THEN /\ data' = [data EXCEPT ![u] = Put(@, "photos", Append(collected, photo))]
               /\ IF Len(collected) + 1 < PHOTO_LIMIT
                  THEN /\ sent' = {Sent(u, "photo added", 0)}
                       /\ UNCHANGED state
                  ELSE /\ sent' = {Sent(u, "prompt category", 0)}
                       /\ state' = [state EXCEPT ![u] = "NewListing:waiting_for_category"]
          ELSE /\ sent' = {Sent(u, "corrective", 0)}
               /\ UNCHANGED fsmVars
     ELSE /\ sent' = {Sent(u, "corrective", 0)}
          /\ UNCHANGED fsmVars
  /\ ev' = Ev("handle_listing_photo", u, 0, "")
  /\ UNCHANGED <<storeVars, renderVars, tasks, probe>>

\* handle_listing_category
handle_listing_category(u, text) ==
  LET matches == category_matches(Strip(text)) IN
  /\ MessageRoute(u, text) = "handle_listing_category"
  /\ IF matches = <<>>
     THEN /\ sent' = {Sent(u, "corrective", 0)}
          /\ UNCHANGED fsmVars
     ELSE /\ data' = [data EXCEPT ![u] = Put(@, "category", matches[1])]
          /\ state' = [state EXCEPT ![u] = "NewListing:waiting_for_condition"]
          /\ sent' = {Sent(u, "prompt condition", 0)}
  /\ ev' = Ev("handle_listing_category", u, 0, "")
  /\ UNCHANGED <<storeVars, renderVars, tasks, probe>>

\* handle_listing_condition
handle_listing_condition(u, text) ==
  LET condition == Strip(text) IN
  /\ MessageRoute(u, text) = "handle_listing_condition"
  /\ IF \A i \in 1..Len(CONDITIONS) : CONDITIONS[i] # condition
     THEN /\ sent' = {Sent(u, "corrective", 0)}
          /\ UNCHANGED fsmVars
     ELSE /\ data' = [data EXCEPT ![u] = Put(@, "condition", condition)]
          /\ state' = [state EXCEPT ![u] = "NewListing:waiting_for_price"]
          /\ sent' = {Sent(u, "prompt price", 0)}
  /\ ev' = Ev("handle_listing_condition", u, 0, "")
  /\ UNCHANGED <<storeVars, renderVars, tasks, probe>>

\* handle_listing_price
handle_listing_price(u, text) ==
  /\ MessageRoute(u, text) = "handle_listing_price"
  /\ data' = [data EXCEPT ![u] = Put(@, "price", parse_price(text))]
  /\ state' = [state EXCEPT ![u] = "NewListing:waiting_for_title"]
  /\ sent' = {Sent(u, "prompt title", 0)}
  /\ ev' = Ev("handle_listing_price", u, 0, "")
  /\ UNCHANGED <<storeVars, renderVars, tasks, probe>>

\* handle_listing_title
handle_listing_title(u, text) ==
  /\ MessageRoute(u, text) = "handle_listing_title"
  /\ data' = [data EXCEPT ![u] = Put(@, "title", Truncate(Strip(text), TITLE_MAX))]
  /\ state' = [state EXCEPT ![u] = "NewListing:waiting_for_description"]
  /\ sent' = {Sent(u, "prompt description", 0)}
  /\ ev' = Ev("handle_listing_title", u, 0, "")
  /\ UNCHANGED <<storeVars, renderVars, tasks, probe>>

draft_photos_none(d) == <<>>

\* handle_listing_description, line 1395: photos = data.get("photos", [])
draft_photos(d) == Get(d, "photos", <<>>)

\* handle_listing_description: the listing is inserted, its photos are added,
\* the admin is notified and the main menu is shown
handle_listing_description(u, text) ==
  LET desc == Truncate(Strip(text), DESC_MAX)
      d == data[u]
      listing_id == Len(listings) + 1
  IN /\ MessageRoute(u, text) = "handle_listing_description"
     /\ u \in Registered
     /\ Len(listings) < MaxListings
     /\ IF Get(d, "price", 0) = BEYOND_INTEGER
        THEN \* add_listing raises OverflowError when the price is bound
             /\ ev' = Ev("handle_listing_description", u, 0, "raised")
             /\ sent' = {}
             /\ UNCHANGED <<listings, photos, fsmVars, renderVars>>
        ELSE /\ listings' = add_listing(listings, u, users[u].city, users[u].microdistrict,
                                        Get(d, "category", <<>>), Get(d, "condition", <<>>),
                                        Get(d, "title", <<>>), desc, Get(d, "price", 0))
             /\ photos' = add_photos(photos, listing_id, draft_photos(d))
             /\ state' = [state EXCEPT ![u] = NoState]
             /\ data' = [data EXCEPT ![u] = EmptyBag]
             /\ sent' = {Sent(u, "created", listing_id),
                         Sent(ADMIN_ID, "moderation", listing_id)}
             /\ show_main_menu(u)
             /\ ev' = Ev("handle_listing_description", u, listing_id, "")
     /\ UNCHANGED <<users, favourites, chats, messages, clock, tasks, probe>>

----------------------------------------------------------------------------
(* Listing editing *)

\* the listings whose edit buttons edit_listings shows to the user: list_user_listings
own_listings(u) == {l \in ListingIds : listings[l].owner_id = u}

\* edit_listings: callback edit_listings
edit_listings(u) ==
  /\ u \in Registered
  /\ Render(u)
  /\ state' = [state EXCEPT ![u] = NoState]
  /\ data' = [data EXCEPT ![u] = EmptyBag]
  /\ ev' = Ev("edit_listings", u, 0, "")
  /\ sent' = {}
  /\ UNCHANGED <<storeVars, tasks, probe>>

\* edit_listing_select: callback edit_listing_{id}
edit_listing_select(u, listing_id) ==
  /\ u \in Registered
  /\ Render(u)
  /\ state' = [state EXCEPT ![u] = NoState]
  /\ data' = [data EXCEPT ![u] = EmptyBag]
  /\ ev' = Ev("edit_listing_select", u, listing_id, "")
  /\ sent' = {}
  /\ UNCHANGED <<storeVars, tasks, probe>>

\* edit_field_photo: callback edit_field_photo_{id}
edit_field_photo(u, listing_id) ==
  /\ u \in Registered
  /\ data' = [data EXCEPT ![u] =
                Put(Put(@, "edit_listing_id", listing_id), "edit_photos", <<>>)]
  /\ state' = [state EXCEPT ![u] = "EditListing:editing_photos"]
  /\ ev' = Ev("edit_field_photo", u, listing_id, "")
  /\ sent' = {Sent(u, "prompt photo", listing_id)}
  /\ UNCHANGED <<storeVars, renderVars, tasks, probe>>

\* edit_field_price: callback edit_field_price_{id}
edit_field_price(u, listing_id) ==
  /\ u \in Registered
  /\ data' = [data EXCEPT ![u] = Put(@, "edit_listing_id", listing_id)]
  /\ state' = [state EXCEPT ![u] = "EditListing:editing_price"]
  /\ ev' = Ev("edit_field_price", u, listing_id, "")
  /\ sent' = {Sent(u, "prompt price", listing_id)}
  /\ UNCHANGED <<storeVars, renderVars, tasks, probe>>

\* edit_field_desc: callback edit_field_desc_{id}
edit_field_desc(u, listing_id) ==
  /\ u \in Registered
  /\ data' = [data EXCEPT ![u] = Put(@, "edit_listing_id", listing_id)]
  /\ state' = [state EXCEPT ![u] = "EditListing:editing_category"]
  /\ ev' = Ev("edit_field_desc", u, listing_id, "")
  /\ sent' = {Sent(u, "prompt category", listing_id)}
  /\ UNCHANGED <<storeVars, renderVars, tasks, probe>>

status_after_edit_kept(old) == old

\* finish_editing, line 1262: update_listing_status(listing_id, "pending")
status_after_edit(old) == "pending"

\* finish_editing, lines 1267-1280: the admin is notified if get_listing finds the listing
moderation_notice(tbl, listing_id) ==
  IF listing_id \in 1..Len(tbl) THEN {Sent(ADMIN_ID, "moderation", listing_id)} ELSE {}

\* finish_editing(listing_id, user_id, state); tbl: table listings as the
\* calling handler has left it
\* an end of the edit flow that leaves state and context as they are
finish_editing_keeping_context(tbl, listing_id, u) ==
  /\ listings' = IF listing_id \in 1..Len(tbl)
                 THEN update_listing_status(tbl, listing_id,
                                            status_after_edit(tbl[listing_id].status))
                 ELSE tbl
  /\ sent' = {Sent(u, "updated", listing_id)} \cup moderation_notice(tbl, listing_id)
  /\ UNCHANGED fsmVars
  /\ show_main_menu(u)

finish_editing(tbl, listing_id, u) ==
  /\ listings' = IF listing_id \in 1..Len(tbl)
                 THEN update_listing_status(tbl, listing_id,
                                            status_after_edit(tbl[listing_id].status))
                 ELSE tbl
  /\ sent' = {Sent(u, "updated", listing_id)} \cup moderation_notice(tbl, listing_id)
  /\ state' = [state EXCEPT ![u] = NoState]
  /\ data' = [data EXCEPT ![u] = EmptyBag]
  /\ show_main_menu(u)

\* handle_edit_photos
handle_edit_photos(u, text, photo) ==
  LET collected == Get(data[u], "edit_photos", <<>>)
      listing_id == Get(data[u], "edit_listing_id", 0)
      added == IF Len(collected) < PHOTO_LIMIT THEN Append(collected, photo) ELSE collected
  IN /\ MessageRoute(u, text) = "handle_edit_photos"
     /\ IF IsSkip(text)
        THEN /\ finish_editing(listings, listing_id, u)
             /\ UNCHANGED photos
        ELSE IF photo # NoPhoto
        THEN IF Len(added) < PHOTO_LIMIT
             THEN /\ data' = [data EXCEPT ![u] = Put(@, "edit_photos", added)]
                  /\ sent' = {Sent(u, "photo added", listing_id)}
                  /\ UNCHANGED <<listings, photos, state, renderVars>>
             ELSE /\ photos' = add_photos(clear_listing_photos(photos, listing_id),
                                          listing_id, added)
                  /\ finish_editing(listings, listing_id, u)
        ELSE /\ sent' = {Sent(u, "corrective", listing_id)}
             /\ UNCHANGED <<listings, photos, fsmVars, renderVars>>
     /\ ev' = Ev("handle_edit_photos", u, listing_id,
                 IF IsSkip(text) \/ (photo # NoPhoto /\ Len(added) >= PHOTO_LIMIT)
                 THEN "finished" ELSE "")
     /\ UNCHANGED <<users, favourites, chats, messages, clock, tasks, probe>>

\* handle_edit_price
\* handle_edit_price; binding a price beyond the 64-bit range raises in
\* update_listing_field, before finish_editing
handle_edit_price(u, text) ==
  LET listing_id == Get(data[u], "edit_listing_id", 0) IN
  /\ MessageRoute(u, text) = "handle_edit_price"
  /\ IF sqlite_integer_fits(DigitsOf(text))
     THEN /\ finish_editing(update_listing_price(listings, listing_id, parse_price(text)),
                            listing_id, u)
          /\ ev' = Ev("handle_edit_price", u, listing_id, "finished")
     ELSE /\ ev' = Ev("handle_edit_price", u, listing_id, "raised")
          /\ sent' = {}
          /\ UNCHANGED <<listings, fsmVars, renderVars>>
  /\ UNCHANGED <<users, photos, favourites, chats, messages, clock, tasks, probe>>

\* handle_edit_category
handle_edit_category(u, text) ==
  LET matches == category_matches(Strip(text)) IN
  /\ MessageRoute(u, text) = "handle_edit_category"
  /\ IF matches = <<>>
     THEN /\ sent' = {Sent(u, "corrective", 0)}
          /\ UNCHANGED fsmVars
     ELSE /\ data' = [data EXCEPT ![u] = Put(@, "edit_new_category", matches[1])]
          /\ state' = [state EXCEPT ![u] = "EditListing:editing_description"]
          /\ sent' = {Sent(u, "prompt description", 0)}
  /\ ev' = Ev("handle_edit_category", u, Get(data[u], "edit_listing_id", 0), "")
  /\ UNCHANGED <<storeVars, renderVars, tasks, probe>>

\* handle_edit_description
handle_edit_description(u, text) ==
  LET desc == Truncate(Strip(text), DESC_MAX)
      listing_id == Get(data[u], "edit_listing_id", 0)
      category == Get(data[u], "edit_new_category", <<>>)
  IN /\ MessageRoute(u, text) = "handle_edit_description"
     /\ finish_editing(
          update_listing_description(
            update_listing_category(listings, listing_id, category), listing_id, desc),
          listing_id, u)
     /\ ev' = Ev("handle_edit_description", u, listing_id, "finished")
     /\ UNCHANGED <<users, photos, favourites, chats, messages, clock, tasks, probe>>

----------------------------------------------------------------------------
(* Admin moderation handlers *)

is_admin_anyone(u) == TRUE

\* admin_accept, admin_deny: if user_id != ADMIN_ID: "Nedostatochno prav", return
is_admin(u) == u = ADMIN_ID

owner_notice_never(tbl, listing_id, kind) == {}

\* the owner is notified if get_listing finds the listing
owner_notice(tbl, listing_id, kind) ==
  IF listing_id \in 1..Len(tbl) THEN {Sent(tbl[listing_id].owner_id, kind, listing_id)}
  ELSE {}

\* admin_accept: callback admin_accept_{id}
admin_accept(u, listing_id) ==
  /\ IF ~is_admin(u)
     THEN /\ ev' = Ev("admin_accept", u, listing_id, "no permission")
          /\ sent' = {}
          /\ UNCHANGED listings
     ELSE /\ listings' = update_listing_status(listings, listing_id, "approved")
          /\ ev' = Ev("admin_accept", u, listing_id, "approved")
          /\ sent' = owner_notice(listings, listing_id, "accepted")
  /\ UNCHANGED <<users, photos, favourites, chats, messages, clock,
                 fsmVars, renderVars, tasks, probe>>

\* admin_deny as it would be if the decision also reset the owner's flow
admin_deny_resetting_owner(u, listing_id) ==
  /\ IF ~is_admin(u)
     THEN /\ ev' = Ev("admin_deny", u, listing_id, "no permission")
          /\ sent' = {}
          /\ UNCHANGED <<listings, fsmVars>>
     ELSE /\ listings' = update_listing_status(listings, listing_id, "denied")
          /\ ev' = Ev("admin_deny", u, listing_id, "denied")
          /\ sent' = owner_notice(listings, listing_id, "denied")
          /\ state' = [state EXCEPT ![listings[listing_id].owner_id] = NoState]
          /\ data' = [data EXCEPT ![listings[listing_id].owner_id] = EmptyBag]
  /\ UNCHANGED <<users, photos, favourites, chats, messages, clock,
                 renderVars, tasks, probe>>

\* admin_deny: callback admin_deny_{id}
admin_deny(u, listing_id) ==
  /\ IF ~is_admin(u)
     THEN /\ ev' = Ev("admin_deny", u, listing_id, "no permission")
          /\ sent' = {}
          /\ UNCHANGED listings
     ELSE /\ listings' = update_listing_status(listings, listing_id, "denied")
          /\ ev' = Ev("admin_deny", u, listing_id, "denied")
          /\ sent' = owner_notice(listings, listing_id, "denied")
  /\ UNCHANGED <<users, photos, favourites, chats, messages, clock,
                 fsmVars, renderVars, tasks, probe>>

\* list_pending_listings
list_pending_listings == {l \in ListingIds : listings[l].status = "pending"}

\* cmd_moderate
cmd_moderate(u, text) ==
  /\ MessageRoute(u, text) = "cmd_moderate"
  /\ IF ~is_admin(u)
     THEN /\ ev' = Ev("cmd_moderate", u, 0, "no permission")
          /\ sent' = {}
     ELSE /\ ev' = Ev("cmd_moderate", u, 0, "")
          /\ sent' = {Sent(u, "moderation", l) : l \in list_pending_listings}
  /\ UNCHANGED <<storeVars, fsmVars, renderVars, tasks, probe>>

----------------------------------------------------------------------------
(* Search, listing view and favourites *)

\* \w of re: letters, digits and the underscore
IsWordChar(c) ==
  InSeq(c, UPPER) \/ InSeq(c, LOWER) \/ InSeq(c, LATIN_UPPER) \/ InSeq(c, LATIN_LOWER)
    \/ InSeq(c, DIGITS) \/ c = "_"

\* re.split("\W+", query) without its empty strings
RECURSIVE Words(_, _)
Words(s, word) ==
  IF s = <<>> THEN (IF word = <<>> THEN <<>> ELSE <<word>>)
  ELSE IF IsWordChar(Head(s)) THEN Words(Tail(s), Append(word, Head(s)))
       ELSE (IF word = <<>> THEN <<>> ELSE <<word>>) \o Words(Tail(s), <<>>)

STOPWORDS ==
  {<<"i">>, <<"a">>, <<"n", "u">>, <<"d", "a">>, <<"n", "e">>, <<"e", "s", "l", "i">>,
   <<"ch", "t", "o">>, <<"k", "a", "k">>, <<"k", "o", "g", "d", "a">>, <<"i", "l", "i">>,
   <<"n", "o">>, <<"n", "a">>, <<"p", "o", "d">>, <<"p", "o">>, <<"s">>, <<"s", "o">>,
   <<"i", "z">>, <<"o", "t">>, <<"d", "o">>, <<"z", "a">>, <<"d", "l", "ya">>, <<"v", "o">>}

\* terms = [t.lower() for t in re.split("\W+", query) if t and t.lower() not in STOPWORDS]
search_terms(query) ==
  LET words == Words(query, <<>>)
      lowered == [i \in 1..Len(words) |-> Lower(words[i])]
  IN SelectSeq(lowered, LAMBDA t : t \notin STOPWORDS)

\* the case folding of SQLite's LIKE: the 26 letters of ASCII only
LikeFoldChar(c) ==
  IF InSeq(c, LATIN_UPPER)
  THEN LATIN_LOWER[CHOOSE i \in 1..Len(LATIN_UPPER) : LATIN_UPPER[i] = c]
  ELSE c

LikeFold(s) == [i \in 1..Len(s) |-> LikeFoldChar(s[i])]

\* column LIKE '%term%'
sql_like(column, term) == Contains(LikeFold(column), LikeFold(term))

\* ids in descending order: ORDER BY created_at DESC
RECURSIVE Descending(_)
Descending(ids) ==
  IF ids = {} THEN <<>>
  ELSE LET m == CHOOSE x \in ids : \A y \in ids : y <= x
       IN <<m>> \o Descending(ids \ {m})

SEARCH_LIMIT == 5
LISTINGS_PAGE_SIZE == 5

\* a WHERE clause that leaves out the condition on the city
search_match_any_city(l, city, category, condition, query) ==
  /\ (category # <<>> => listings[l].category = category)
  /\ (condition # <<>> => listings[l].condition = condition)
  /\ \A i \in 1..Len(search_terms(query)) :
       \/ sql_like(listings[l].title, search_terms(query)[i])
       \/ sql_like(listings[l].description, search_terms(query)[i])

\* search_listings: the conditions of the WHERE clause on city, category,
\* condition and the terms of the query
search_match(l, city, category, condition, query) ==
  /\ listings[l].city = city
  /\ (category # <<>> => listings[l].category = category)
  /\ (condition # <<>> => listings[l].condition = condition)
  /\ \A i \in 1..Len(search_terms(query)) :
       \/ sql_like(listings[l].title, search_terms(query)[i])
       \/ sql_like(listings[l].description, search_terms(query)[i])

\* a search that leaves out the condition on the status
search_rows_any_status(city, category, condition, query) ==
  {l \in ListingIds : search_match(l, city, category, condition, query)}

\* search_listings: the WHERE clause, status = 'approved' first
search_rows(city, category, condition, query) ==
  {l \in ListingIds :
     /\ listings[l].status = "approved"
     /\ search_match(l, city, category, condition, query)}

\* search_listings(city, None, category, condition, query, offset=0, limit=SEARCH_LIMIT)
search_listings(city, category, condition, query) ==
  Truncate(Descending(search_rows(city, category, condition, query)), SEARCH_LIMIT)

\* the favourites rows of a pair (user, listing)
favourite_rows(tbl, user_id, listing_id) ==
  {i \in 1..Len(tbl) : tbl[i].user_id = user_id /\ tbl[i].listing_id = listing_id}

\* list_favourites(user_id, offset=0, limit=LISTINGS_PAGE_SIZE): the join with
\* listings, l.status = 'approved'
list_favourites(user_id) ==
  Truncate(Descending({l \in ListingIds :
                         /\ favourite_rows(favourites, user_id, l) # {}
                         /\ listings[l].status = "approved"}),
           LISTINGS_PAGE_SIZE)

\* PRIMARY KEY (user_id, listing_id) of table favourites
favourites_insert_allowed(tbl, user_id, listing_id) ==
  favourite_rows(tbl, user_id, listing_id) = {}

\* add_favourite: the INSERT; an IntegrityError is passed over
add_favourite(tbl, user_id, listing_id) ==
  IF favourites_insert_allowed(tbl, user_id, listing_id)
  THEN Append(tbl, [user_id |-> user_id, listing_id |-> listing_id])
  ELSE tbl

\* remove_favourite
remove_favourite(tbl, user_id, listing_id) ==
  SelectSeq(tbl, LAMBDA r : ~(r.user_id = user_id /\ r.listing_id = listing_id))

\* callback data prefixes
VIEW_LISTING_ ==
  <<"l.v", "l.i", "l.e", "l.w", "_", "l.l", "l.i", "l.s", "l.t", "l.i", "l.n", "l.g", "_">>
FAV_ == <<"l.f", "l.a", "l.v", "_">>
UNFAV_ == <<"l.u", "l.n", "l.f", "l.a", "l.v", "_">>

DASH == <<"-">>

\* int(s) succeeds (for the texts of the model: a non-empty digit string)
IsInt(s) == s # <<>> /\ \A i \in 1..Len(s) : IsDigit(s[i])

\* process_main_menu with callback menu_search, and search_menu
search_menu(u) ==
  /\ u \in Registered
  /\ Render(u)
  /\ data' = [data EXCEPT ![u] = EmptyBag]
  /\ state' = [state EXCEPT ![u] = "SearchStates:search_init"]
  /\ ev' = Ev("search_menu", u, 0, "")
  /\ sent' = {}
  /\ UNCHANGED <<storeVars, tasks, probe>>

\* process_search_filters: callback search_{action} in state search_init
process_search_filters(u, action) ==
  /\ state[u] = "SearchStates:search_init"
  /\ IF action = "category"
     THEN /\ Render(u)
          /\ state' = [state EXCEPT ![u] = "SearchStates:search_filter_category"]
          /\ sent' = {}
     ELSE IF action = "condition"
     THEN /\ Render(u)
          /\ state' = [state EXCEPT ![u] = "SearchStates:search_filter_condition"]
          /\ sent' = {}
     ELSE IF action = "skip"
     THEN /\ state' = [state EXCEPT ![u] = "SearchStates:search_query"]
          /\ sent' = {Sent(u, "prompt query", 0)}
          /\ UNCHANGED renderVars
     ELSE /\ sent' = {}
          /\ UNCHANGED <<state, renderVars>>
  /\ ev' = Ev("process_search_filters", u, 0, action)
  /\ UNCHANGED <<storeVars, data, tasks, probe>>

\* set_filter_category: callback filter_category_{cat} in state
\* search_filter_category; cat = <<>> stands for "skip" (category=None)
set_filter_category(u, cat) ==
  /\ state[u] = "SearchStates:search_filter_category"
  /\ data' = [data EXCEPT ![u] = Put(@, "category", cat)]
  /\ Render(u)
  /\ state' = [state EXCEPT ![u] = "SearchStates:search_init"]
  /\ ev' = Ev("set_filter_category", u, 0, "")
  /\ sent' = {}
  /\ UNCHANGED <<storeVars, tasks, probe>>

\* set_filter_condition: callback filter_condition_{cond} in state
\* search_filter_condition; cond = <<>> stands for "skip" (condition=None)
set_filter_condition(u, cond) ==
  /\ state[u] = "SearchStates:search_filter_condition"
  /\ data' = [data EXCEPT ![u] = Put(@, "condition", cond)]
  /\ Render(u)
  /\ state' = [state EXCEPT ![u] = "SearchStates:search_init"]
  /\ ev' = Ev("set_filter_condition", u, 0, "")
  /\ sent' = {}
  /\ UNCHANGED <<storeVars, tasks, probe>>

\* perform_search; the listings of the result surface are recorded in sent
perform_search(u, text) ==
  LET stripped == Strip(text)
      query_text == IF stripped = DASH THEN <<>> ELSE stripped
      results == search_listings(users[u].city, Get(data[u], "category", <<>>),
                                 Get(data[u], "condition", <<>>), query_text)
  IN /\ MessageRoute(u, text) = "perform_search"
     /\ IF u \notin Registered
        THEN /\ sent' = {Sent(u, "corrective", 0)}
             /\ show_main_menu(u)
        ELSE /\ sent' = {Sent(u, "result", results[i]) : i \in 1..Len(results)}
                        \cup {Sent(u, "result list", results)}
             /\ Render(u)
     /\ state' = [state EXCEPT ![u] = NoState]
     /\ data' = [data EXCEPT ![u] = EmptyBag]
     /\ ev' = Ev("perform_search", u, 0, "")
     /\ UNCHANGED <<storeVars, tasks, probe>>

\* process_main_menu with callback menu_favourites, and favourites_menu; the
\* listings of the surface are recorded in sent
favourites_menu(u) ==
  /\ u \in Registered
  /\ Render(u)
  /\ state' = [state EXCEPT ![u] = NoState]
  /\ data' = [data EXCEPT ![u] = EmptyBag]
  /\ ev' = Ev("favourites_menu", u, 0, "")
  /\ sent' = {Sent(u, "favourite", list_favourites(u)[i]) : i \in 1..Len(list_favourites(u))}
  /\ UNCHANGED <<storeVars, tasks, probe>>

\* view_listing, lines 989-1005: the previous surface is deleted if that
\* succeeds, the media group and a new surface are sent and the new one tracked
composite_render(u) ==
  \E deleteOk \in BOOLEAN :
    /\ nextMsgId[u] < MaxMsgId
    /\ SESSIONS' = [SESSIONS EXCEPT ![u] = nextMsgId[u] + 1]
    /\ nextMsgId' = [nextMsgId EXCEPT ![u] = nextMsgId[u] + 1]
    /\ live' = [live EXCEPT ![u] =
                  (IF SESSIONS[u] # 0 /\ deleteOk THEN @ \ {SESSIONS[u]} ELSE @)
                    \cup {nextMsgId[u] + 1}]

\* view_listing, line 944: if not listing or listing["status"] != "approved"
view_allowed(l) == l \in ListingIds /\ listings[l].status = "approved"

\* the coroutine view_listing(callback, state), run by handler h on callback
\* data cbdata
view_listing_run(h, u, cbdata) ==
  LET arg == SubSeq(cbdata, Len(VIEW_LISTING_) + 1, Len(cbdata))
      listing_id == StrToInt(arg)
  IN IF ~IsInt(arg)
     THEN /\ ev' = Ev(h, u, 0, "raised")
          /\ sent' = {}
          /\ UNCHANGED renderVars
     ELSE IF ~view_allowed(listing_id)
     THEN /\ ev' = Ev(h, u, listing_id, "not available")
          /\ sent' = {}
          /\ UNCHANGED renderVars
     ELSE /\ ev' = Ev(h, u, listing_id, "")
          /\ sent' = {Sent(u, "listing surface", listing_id)}
          /\ IF listing_photos(photos, listing_id) # <<>>
             THEN composite_render(u)
             ELSE Render(u)

\* view_listing: callback view_listing_{id}
view_listing(u, listing_id) ==
  /\ view_listing_run("view_listing", u, VIEW_LISTING_ \o IntToStr(listing_id))
  /\ UNCHANGED <<storeVars, fsmVars, tasks, probe>>

\* favourite_listing: callback fav_{id}; the refresh runs view_listing on the
\* callback of this handler
favourite_listing(u, listing_id) ==
  /\ favourites' = add_favourite(favourites, u, listing_id)
  /\ view_listing_run("favourite_listing", u, FAV_ \o IntToStr(listing_id))
  /\ UNCHANGED <<users, listings, photos, chats, messages, clock, fsmVars, tasks, probe>>

\* unfavourite_listing: callback unfav_{id}
unfavourite_listing(u, listing_id) ==
  /\ favourites' = remove_favourite(favourites, u, listing_id)
  /\ view_listing_run("unfavourite_listing", u, UNFAV_ \o IntToStr(listing_id))
  /\ UNCHANGED <<users, listings, photos, chats, messages, clock, fsmVars, tasks, probe>>

----------------------------------------------------------------------------
(* start_chat as a task: one step per await on the database.  Two presses  *)
(* of the same button (a double tap) are two tasks.                        *)

DropTask(i) == [j \in 1..(Len(tasks) - 1) |-> IF j < i THEN tasks[j] ELSE tasks[j + 1]]

task_chat_id(t) == chat_id_from_users(t.u, listings[t.listing].owner_id, t.listing)

\* the update arrives and start_chat runs up to ensure_chat's SELECT (line 428)
start_chat_begin(u, listing_id) ==
  /\ u \in Registered
  /\ listing_id \in ListingIds
  /\ u # listings[listing_id].owner_id
  /\ Len(tasks) < MaxTasks
  /\ tasks' = Append(tasks, [h |-> "start_chat", u |-> u, listing |-> listing_id,
                             pc |-> "select"])
  /\ UNCHANGED <<storeVars, fsmVars, renderVars, ev, sent, probe>>

\* ensure_chat, lines 428-430: the SELECT and the test of its row
start_chat_select(i) ==
  /\ i \in 1..Len(tasks)
  /\ tasks[i].h = "start_chat" /\ tasks[i].pc = "select"
  /\ tasks' = [tasks EXCEPT ![i].pc =
                 IF chat_rows(chats, task_chat_id(tasks[i])) = {} THEN "insert"
                 ELSE "render"]
  /\ UNCHANGED <<storeVars, fsmVars, renderVars, ev, sent, probe>>

\* ensure_chat, lines 431-435: the INSERT; on IntegrityError the handler ends
start_chat_insert(i) ==
  /\ i \in 1..Len(tasks)
  /\ tasks[i].h = "start_chat" /\ tasks[i].pc = "insert"
  /\ LET t == tasks[i]
         chat_id == task_chat_id(t)
     IN IF chats_insert_allowed(chats, chat_id)
        THEN /\ chats' = Append(chats, chat_row(chat_id, t.u, listings[t.listing].owner_id,
                                                t.listing, clock))
             /\ clock' = clock + 1
             /\ tasks' = [tasks EXCEPT ![i].pc = "render"]
             /\ UNCHANGED <<ev, sent>>
        ELSE /\ tasks' = DropTask(i)
             /\ ev' = Ev("start_chat", t.u, t.listing, "raised")
             /\ sent' = {}
             /\ UNCHANGED <<chats, clock>>
  /\ UNCHANGED <<users, listings, photos, favourites, messages, fsmVars, renderVars, probe>>

\* start_chat, lines 1450-1466: the chat window, the context and the state
start_chat_finish(i) ==
  /\ i \in 1..Len(tasks)
  /\ tasks[i].h = "start_chat" /\ tasks[i].pc = "render"
  /\ LET t == tasks[i]
     IN /\ Render(t.u)
        /\ data' = [data EXCEPT ![t.u] =
                      chat_context(@, task_chat_id(t), listings[t.listing].owner_id, t.listing)]
        /\ state' = [state EXCEPT ![t.u] = "ChatStates:chatting"]
        /\ ev' = Ev("start_chat", t.u, t.listing, "")
        /\ sent' = {}
  /\ tasks' = DropTask(i)
  /\ UNCHANGED <<storeVars, probe>>

----------------------------------------------------------------------------
(* handle_edit_photos as a task: one step per await on the database.  The   *)
(* photos of one album arrive as separate updates, each handled by a task   *)
(* of its own.                                                              *)

\* the update arrives and handle_edit_photos runs up to its first await on the
\* database: lines 1187-1204 (state.get_data and state.update_data of
\* MemoryStorage do not suspend)
handle_edit_photos_begin(u, text, photo) ==
  LET collected == Get(data[u], "edit_photos", <<>>)
      listing_id == Get(data[u], "edit_listing_id", 0)
      added == IF Len(collected) < PHOTO_LIMIT THEN Append(collected, photo) ELSE collected
      task(pc) == [h |-> "handle_edit_photos", u |-> u, listing |-> listing_id,
                   file_ids |-> added, k |-> 1, pc |-> pc]
  IN /\ MessageRoute(u, text) = "handle_edit_photos"
     /\ Len(tasks) < MaxTasks
     /\ IF IsSkip(text)
        THEN /\ tasks' = Append(tasks, task("finish"))
             /\ UNCHANGED <<data, ev, sent>>
        ELSE IF photo # NoPhoto
        THEN /\ data' = [data EXCEPT ![u] = Put(@, "edit_photos", added)]
             /\ IF Len(added) < PHOTO_LIMIT
                THEN /\ ev' = Ev("handle_edit_photos", u, listing_id, "")
                     /\ sent' = {Sent(u, "photo added", listing_id)}
                     /\ UNCHANGED tasks
                ELSE /\ tasks' = Append(tasks, task("clear"))
                     /\ UNCHANGED <<ev, sent>>
        ELSE /\ ev' = Ev("handle_edit_photos", u, listing_id, "")
             /\ sent' = {Sent(u, "corrective", listing_id)}
             /\ UNCHANGED <<data, tasks>>
     /\ UNCHANGED <<storeVars, state, renderVars, probe>>

\* line 1206: await clear_listing_photos(listing_id)
handle_edit_photos_clear(i) ==
  /\ i \in 1..Len(tasks)
  /\ tasks[i].h = "handle_edit_photos" /\ tasks[i].pc = "clear"
  /\ photos' = clear_listing_photos(photos, tasks[i].listing)
  /\ tasks' = [tasks EXCEPT ![i].pc = "add"]
  /\ UNCHANGED <<users, listings, favourites, chats, messages, clock,
                 fsmVars, renderVars, ev, sent, probe>>

\* lines 1207-1208: one await add_photo(listing_id, pid) of the loop
handle_edit_photos_add(i) ==
  /\ i \in 1..Len(tasks)
  /\ tasks[i].h = "handle_edit_photos" /\ tasks[i].pc = "add"
  /\ LET t == tasks[i]
     IN /\ photos' = add_photos(photos, t.listing, <<t.file_ids[t.k]>>)
        /\ tasks' = [tasks EXCEPT ![i].k = t.k + 1,
                                  ![i].pc = IF t.k = Len(t.file_ids) THEN "finish" ELSE "add"]
  /\ UNCHANGED <<users, listings, favourites, chats, messages, clock,
                 fsmVars, renderVars, ev, sent, probe>>

\* lines 1193 and 1209: await finish_editing(listing_id, user_id, state)
handle_edit_photos_finish(i) ==
  /\ i \in 1..Len(tasks)
  /\ tasks[i].h = "handle_edit_photos" /\ tasks[i].pc = "finish"
  /\ finish_editing(listings, tasks[i].listing, tasks[i].u)
  /\ ev' = Ev("handle_edit_photos", tasks[i].u, tasks[i].listing, "finished")
  /\ tasks' = DropTask(i)
  /\ UNCHANGED <<users, photos, favourites, chats, messages, clock, probe>>

----------------------------------------------------------------------------
(* load_more_messages as a task: its two fetch_messages calls are two awaits *)
(* on the database, and other updates are handled between them.             *)

\* the texts of the rows of a chat window, in the order of the lines
window_texts(rows) == [i \in 1..Len(rows) |-> rows[i].text]

\* the update arrives and load_more_messages runs up to the end of its first
\* fetch_messages (line 1476)
load_more_begin(u) ==
  /\ state[u] = "ChatStates:chatting"
  /\ Len(tasks) < MaxTasks
  /\ Get(data[u], "offset", 0) < CHAT_PAGE * (1 + MaxLoadMore)
  /\ LET chat_id == Get(data[u], "active_chat", <<>>)
         offset == Get(data[u], "offset", 0)
     IN tasks' = Append(tasks,
                   [h |-> "load_more_messages", u |-> u, chat_id |-> chat_id,
                    offset |-> offset,
                    msgs |-> fetch_messages(messages, chat_id, offset, CHAT_PAGE, TRUE),
                    pc |-> "second"])
  /\ UNCHANGED <<storeVars, fsmVars, renderVars, ev, sent, probe>>

\* lines 1478-1490: the second fetch_messages, the render of the lines and
\* state.update_data(offset=new_offset)
load_more_finish(i) ==
  /\ i \in 1..Len(tasks)
  /\ tasks[i].h = "load_more_messages" /\ tasks[i].pc = "second"
  /\ LET t == tasks[i]
         newer == fetch_messages(messages, t.chat_id, 0, t.offset, TRUE)
     IN /\ sent' = {Sent(t.u, "chat window", window_texts(t.msgs \o newer))}
        /\ Render(t.u)
        /\ data' = [data EXCEPT ![t.u] = Put(@, "offset", t.offset + CHAT_PAGE)]
        /\ ev' = Ev("load_more_messages", t.u, 0, "")
  /\ tasks' = DropTask(i)
  /\ UNCHANGED <<storeVars, state, probe>>

----------------------------------------------------------------------------
(* The pure functions, applied to inputs drawn from bounded sets *)

NoProbe == [fn |-> "none"]

ProbeChatId ==
  /\ \E a \in 0..MaxProbeId, b \in 0..MaxProbeId, l \in 1..MaxProbeListing :
       probe' = [fn |-> "chat_id_from_users", a |-> a, b |-> b, l |-> l,
                 out |-> chat_id_from_users(a, b, l)]
  /\ UNCHANGED <<storeVars, fsmVars, renderVars, ev, sent, tasks>>

\* the chats of users 2 and 11 on listings 1 and 2
ProbeChats == {chat_id_from_users(2, 11, 1), chat_id_from_users(2, 11, 2)}

\* store_message on one of the two chats; the text is the number of the row
ProbeStore ==
  /\ Len(messages) < MaxProbeMessages
  /\ \E c \in ProbeChats :
       messages' = store_message(messages, c, 2, 11, 1, IntToStr(Len(messages) + 1))
  /\ probe' = NoProbe
  /\ UNCHANGED <<users, listings, photos, favourites, chats, clock, fsmVars,
                 renderVars, ev, sent, tasks>>

\* fetch_messages applied to the stored messages
ProbeFetch ==
  /\ \E c \in ProbeChats, offset \in 0..MaxProbeMessages, limit \in 0..MaxProbeMessages,
        reverse \in BOOLEAN :
       probe' = [fn |-> "fetch_messages", chat_id |-> c, offset |-> offset,
                 limit |-> limit, reverse |-> reverse,
                 out |-> fetch_messages(messages, c, offset, limit, reverse)]
  /\ UNCHANGED <<storeVars, fsmVars, renderVars, ev, sent, tasks>>

----------------------------------------------------------------------------
(* handle_listing_description as a task: the description message delivered *)
(* twice is two updates, each handled by its own task.                     *)

\* the update passes the state filter and the handler runs up to its first
\* await on the database: lines 1377-1379 (state.get_data of MemoryStorage does
\* not suspend), get_user_info at line 1381 suspends
handle_listing_description_begin(u, text) ==
  /\ MessageRoute(u, text) = "handle_listing_description"
  /\ u \in Registered
  /\ Len(tasks) < MaxTasks
  /\ tasks' = Append(tasks, [h |-> "handle_listing_description", u |-> u,
                             desc |-> Truncate(Strip(text), DESC_MAX),
                             data |-> data[u], pc |-> "insert"])
  /\ UNCHANGED <<storeVars, fsmVars, renderVars, ev, sent, probe>>

\* lines 1381-1415: add_listing and add_photo with the bag read at the start,
\* state.clear(), the reply, the admin notification and the main menu
handle_listing_description_finish(i) ==
  /\ i \in 1..Len(tasks)
  /\ tasks[i].h = "handle_listing_description" /\ tasks[i].pc = "insert"
  /\ Len(listings) < MaxRaceListings
  /\ LET u == tasks[i].u
         d == tasks[i].data
         listing_id == Len(listings) + 1
     IN IF Get(d, "price", 0) = BEYOND_INTEGER
        THEN /\ ev' = Ev("handle_listing_description", u, 0, "raised")
             /\ sent' = {}
             /\ UNCHANGED <<listings, photos, fsmVars, renderVars>>
        ELSE /\ listings' = add_listing(listings, u, users[u].city, users[u].microdistrict,
                                        Get(d, "category", <<>>), Get(d, "condition", <<>>),
                                        Get(d, "title", <<>>), tasks[i].desc,
                                        Get(d, "price", 0))
             /\ photos' = add_photos(photos, listing_id, draft_photos(d))
             /\ state' = [state EXCEPT ![u] = NoState]
             /\ data' = [data EXCEPT ![u] = EmptyBag]
             /\ sent' = {Sent(u, "created", listing_id),
                         Sent(ADMIN_ID, "moderation", listing_id)}
             /\ show_main_menu(u)
             /\ ev' = Ev("handle_listing_description", u, listing_id, "")
  /\ tasks' = DropTask(i)
  /\ UNCHANGED <<users, favourites, chats, messages, clock, probe>>

----------------------------------------------------------------------------
(* Initial states: the bot process has just started (no FSM context, no     *)
(* SESSIONS entry) over the database of an earlier run                      *)

InitStore ==
  /\ users = [u \in USERS \ {NEWCOMER} |-> user_row(MOSKVA)]
  /\ listings = <<listing_row(11, MOSKVA, <<>>, ELEKTRONIKA, NOVOE, TELEFON, HI, 1500, "approved"),
                  listing_row(2, MOSKVA, <<>>, ELEKTRONIKA, BU, TELEFON, HI, 900, "denied")>>
  /\ photos = <<photo_row(1, "f1")>>
  /\ favourites = <<>>
  /\ chats = <<>>
  /\ messages = <<>>
  /\ clock = 1

\* a database with eight listings: six approved ones in Moscow (listing 4 in
\* another category and condition, listing 5 with a microdistrict), a denied
\* one and an approved one in Omsk
SearchStore ==
  /\ users = [u \in USERS \ {NEWCOMER} |-> user_row(MOSKVA)]
  /\ listings =
       <<listing_row(11, MOSKVA, <<>>, ELEKTRONIKA, NOVOE, TELEFON, HI, 1500, "approved"),
         listing_row(2, MOSKVA, <<>>, ELEKTRONIKA, BU, TELEFON, HI, 900, "denied"),
         listing_row(11, OMSK, <<>>, ELEKTRONIKA, NOVOE, TELEFON, HI, 1500, "approved"),
         listing_row(11, MOSKVA, <<>>, CATEGORIES[2], BU, TELEFON, HI, 1500, "approved"),
         listing_row(11, MOSKVA, <<"C", "e", "n", "t", "r">>, ELEKTRONIKA, NOVOE, TELEFON, HI,
                     1500, "approved"),
         listing_row(11, MOSKVA, <<>>, ELEKTRONIKA, NOVOE, TELEFON, HI, 1500, "approved"),
         listing_row(11, MOSKVA, <<>>, ELEKTRONIKA, NOVOE, TELEFON, HI, 1500, "approved"),
         listing_row(11, MOSKVA, <<>>, ELEKTRONIKA, NOVOE, TELEFON, HI, 1500, "approved")>>
  /\ photos = <<>>
  /\ favourites = <<>>
  /\ chats = <<>>
  /\ messages = <<>>
  /\ clock = 1

\* the bot process has just started: no FSM context, no SESSIONS entry
InitProcess ==
  /\ state = [u \in USERS |-> NoState]
  /\ data = [u \in USERS |-> EmptyBag]
  /\ SESSIONS = [u \in USERS |-> 0]
  /\ nextMsgId = [u \in USERS |-> 0]
  /\ live = [u \in USERS |-> {}]
  /\ ev = NoEv
  /\ sent = {}
  /\ tasks = <<>>
  /\ probe = NoProbe

Init == InitStore /\ InitProcess

InitSearch == SearchStore /\ InitProcess

----------------------------------------------------------------------------
(* Specifications *)

ChatUsers == {2, 11}

\* the listings view_listing shows, with the start_chat button: the approved ones
Viewable == {l \in ListingIds : listings[l].status = "approved"}

\* the chat relay: the handlers a user reaches from a listing or the chats menu
NextChat ==
  \/ \E u \in ChatUsers, l \in Viewable : start_chat(u, l)
  \/ \E u \in ChatUsers, i \in 1..Len(chats) : open_chat(u, i)
  \/ \E u \in ChatUsers : load_more_messages(u)
  \/ \E u \in ChatUsers, t \in ChatTexts, delivered \in BOOLEAN :
       handle_chat_message(u, t, delivered)
  \/ \E u \in ChatUsers : cmd_mute(u, <<"/">> \o MUTE)
  \/ \E u \in ChatUsers : cmd_unmute(u, <<"/">> \o UNMUTE)
  \/ \E u \in ChatUsers : process_back_main(u)
  \/ \E u \in ChatUsers : chats_menu(u)

SpecChat == Init /\ [][NextChat]_vars

ListingUsers == {2, 11}

RUB_1500 == <<"1", "5", "0", "0", " ", "r", "u", "b">>

\* what a user sends at the photo step of a new listing: user 2 sends photos
\* or "Propustit'", user 11 sends "Propustit'" or another text
CreatePhotoInputs(u) ==
  IF u = 2 THEN {<<<<>>, "f1">>, <<SKIP, NoPhoto>>}
  ELSE {<<SKIP, NoPhoto>>, <<HI, NoPhoto>>}

\* "ehlek", a text that names no category
CategoryInputs == {<<"eh", "l", "e", "k">>, HI}

\* "Novoe", "novoe"
ConditionInputs == {NOVOE, Lower(NOVOE)}

\* user 2 names a price, user 11 sends a text without digits (price 0)
CreatePriceInputs(u) == IF u = 2 THEN {RUB_1500} ELSE {HI}

TitleInputs == {TELEFON}

DescriptionInputs == {HI}

\* the creation flow
NextCreate ==
  \/ \E u \in ListingUsers : create_listing_init(u)
  \/ \E u \in ListingUsers : \E m \in CreatePhotoInputs(u) :
        handle_listing_photo(u, m[1], m[2])
  \/ \E u \in ListingUsers, t \in CategoryInputs : handle_listing_category(u, t)
  \/ \E u \in ListingUsers, t \in ConditionInputs : handle_listing_condition(u, t)
  \/ \E u \in ListingUsers : \E t \in CreatePriceInputs(u) : handle_listing_price(u, t)
  \/ \E u \in ListingUsers, t \in TitleInputs : handle_listing_title(u, t)
  \/ \E u \in ListingUsers, t \in DescriptionInputs : handle_listing_description(u, t)

SpecCreate == Init /\ [][NextCreate]_vars

\* what a user sends at the photo step of an edit: a photo, "Propustit'",
\* another text
EditPhotoInputs(u) ==
  {<<<<>>, IF u = 2 THEN "f1" ELSE "f2">>, <<SKIP, NoPhoto>>, <<HI, NoPhoto>>}

\* "1500 rub", a text without digits (price 0)
EditPriceInputs == {RUB_1500, HI}

\* the edit buttons a user presses: user 11 edits every field of the own
\* listing, user 2 the price
EditFields(u) == IF u = 11 THEN {"photo", "price", "desc"} ELSE {"price"}

\* the edit flows of the users' own listings
NextEdit ==
  \/ \E u \in ListingUsers : \E l \in own_listings(u) :
        "photo" \in EditFields(u) /\ edit_field_photo(u, l)
  \/ \E u \in ListingUsers : \E l \in own_listings(u) :
        "price" \in EditFields(u) /\ edit_field_price(u, l)
  \/ \E u \in ListingUsers : \E l \in own_listings(u) :
        "desc" \in EditFields(u) /\ edit_field_desc(u, l)
  \/ \E u \in ListingUsers : \E m \in EditPhotoInputs(u) :
        handle_edit_photos(u, m[1], m[2])
  \/ \E u \in ListingUsers, t \in EditPriceInputs : handle_edit_price(u, t)
  \/ \E u \in ListingUsers, t \in CategoryInputs : handle_edit_category(u, t)
  \/ \E u \in ListingUsers, t \in DescriptionInputs : handle_edit_description(u, t)

SpecEdit == Init /\ [][NextEdit]_vars

\* moderation: the accept and deny buttons of the notifications sent so far
\* (anyone may send their callback data), /moderate, and the owners' price
\* edits that return a listing to moderation
NextModerate ==
  \/ \E u \in USERS, l \in ListingIds : admin_accept(u, l)
  \/ \E u \in USERS, l \in ListingIds : admin_deny(u, l)
  \/ \E u \in USERS : cmd_moderate(u, <<"/">> \o MODERATE)
  \/ \E u \in ListingUsers : \E l \in own_listings(u) : edit_field_price(u, l)
  \/ \E u \in ListingUsers : handle_edit_price(u, RUB_1500)

SpecModerate == Init /\ [][NextModerate]_vars

\* photo editing with the photo messages handled as concurrent tasks
NextPhotoRace ==
  \/ \E l \in own_listings(11) : edit_field_photo(11, l)
  \/ \E m \in EditPhotoInputs(11) : handle_edit_photos_begin(11, m[1], m[2])
  \/ \E i \in 1..MaxTasks : handle_edit_photos_clear(i)
  \/ \E i \in 1..MaxTasks : handle_edit_photos_add(i)
  \/ \E i \in 1..MaxTasks : handle_edit_photos_finish(i)

SpecPhotoRace == Init /\ [][NextPhotoRace]_vars

\* "-", "lefon", "Telefon"
QueryInputs == {DASH, <<"l", "e", "f", "o", "n">>, TELEFON}

\* the handlers of the buttons that the surface of a search step carries:
\* search_menu offers search_category, search_condition, search_skip and
\* back_main; ask_search_query sends a prompt without buttons
offered(st) ==
  IF st = "SearchStates:search_init"
  THEN {"process_search_filters", "process_back_main"}
  ELSE {}

\* user 2 searches, views listings and keeps favourites while the owner of
\* listing 1 edits its price and the admin moderates
NextBrowse ==
  \/ search_menu(2)
  \/ process_search_filters(2, "skip")
  \/ \E t \in QueryInputs : perform_search(2, t)
  \/ \E l \in ListingIds : view_listing(2, l)
  \/ \E l \in ListingIds : favourite_listing(2, l)
  \/ \E l \in ListingIds : unfavourite_listing(2, l)
  \/ favourites_menu(2)
  \/ edit_field_price(11, 1)
  \/ handle_edit_price(11, RUB_1500)
  \/ \E l \in ListingIds : admin_accept(ADMIN_ID, l)
  \/ \E l \in ListingIds : admin_deny(ADMIN_ID, l)

SpecBrowse == Init /\ [][NextBrowse]_vars

\* "Omsk"; "O" is too short, "Omsk1" has a digit
CityInputs == {OMSK, <<"O">>, OMSK \o <<"1">>}

\* "-"; "5a"; "xy" in Latin letters
MicrodistrictInputs == {DASH, <<"5", "a">>, <<"l.x", "l.y">>}

\* a newcomer registers, changes the location, starts to create a listing and
\* opens a chat on listing 1, with valid and invalid inputs and back presses
NextRegister ==
  \/ cmd_start(NEWCOMER, <<"/">> \o START)
  \/ \E t \in CityInputs : process_city(NEWCOMER, t)
  \/ \E t \in MicrodistrictInputs : process_microdistrict(NEWCOMER, t)
  \/ settings_menu(NEWCOMER)
  \/ settings_change_city(NEWCOMER)
  \/ \E t \in CityInputs : settings_process_city(NEWCOMER, t)
  \/ \E t \in MicrodistrictInputs : settings_process_microdistrict(NEWCOMER, t)
  \/ process_back_main(NEWCOMER)
  \/ create_listing_init(NEWCOMER)
  \/ \E m \in CreatePhotoInputs(11) : handle_listing_photo(NEWCOMER, m[1], m[2])
  \/ \E t \in CategoryInputs : handle_listing_category(NEWCOMER, t)
  \/ \E t \in ConditionInputs : handle_listing_condition(NEWCOMER, t)
  \/ start_chat(NEWCOMER, 1)

SpecRegister == Init /\ [][NextRegister]_vars

\* start_chat handled as concurrent tasks, between back presses
NextEnsureChatRace ==
  \/ \E u \in ChatUsers, l \in 1..MaxListings : start_chat_begin(u, l)
  \/ \E i \in 1..MaxTasks : start_chat_select(i)
  \/ \E i \in 1..MaxTasks : start_chat_insert(i)
  \/ \E i \in 1..MaxTasks : start_chat_finish(i)
  \/ \E u \in ChatUsers : process_back_main(u)

SpecEnsureChatRace == Init /\ [][NextEnsureChatRace]_vars

SpecPure == Init /\ [][ProbeChatId]_vars

\* user 2 writes numbered messages in the chat on listing 1 and presses
\* "load more"; the press is handled as a task
NextLoadMoreRace ==
  \/ start_chat(2, 1)
  \/ handle_chat_message_upto(2, IntToStr(Len(messages) + 1), TRUE, MaxRaceMessages)
  \/ load_more_begin(2)
  \/ \E i \in 1..MaxTasks : load_more_finish(i)

SpecLoadMoreRace == Init /\ [][NextLoadMoreRace]_vars

\* user 2 searches with and without filters and changes the stored location;
\* the admin accepts listing 2 and denies listing 1
NextSearch ==
  \/ search_menu(2)
  \/ \E action \in {"category", "condition", "skip"} : process_search_filters(2, action)
  \/ \E cat \in {<<>>, ELEKTRONIKA} : set_filter_category(2, cat)
  \/ \E cond \in {<<>>, NOVOE} : set_filter_condition(2, cond)
  \/ \E t \in {DASH, <<"l", "e", "f", "o", "n">>} : perform_search(2, t)
  \/ settings_change_city(2)
  \/ settings_process_city(2, OMSK)
  \/ \E t \in {DASH, <<"5", "a">>} : settings_process_microdistrict(2, t)
  \/ admin_accept(ADMIN_ID, 2)
  \/ admin_deny(ADMIN_ID, 1)

SpecSearch == InitSearch /\ [][NextSearch]_vars

\* users 2 and 11 open the chats on listings 1 and 2 and write to each other;
\* a delivery of a message of user 2 succeeds or raises
NextMessageLog ==
  \/ start_chat(2, 1)
  \/ start_chat(11, 2)
  \/ \E u \in {2, 11}, i \in 1..Len(chats) : open_chat(u, i)
  \/ \E delivered \in BOOLEAN :
       handle_chat_message_upto(2, IntToStr(Len(messages) + 1), delivered, MaxLogMessages)
  \/ handle_chat_message_upto(11, IntToStr(Len(messages) + 1), TRUE, MaxLogMessages)

SpecMessageLog == Init /\ [][NextMessageLog]_vars

\* users 2 and 11 send edit callbacks with the id of any listing, their own
\* or the other's, and then a price; the admin accepts what was edited
NextForeignEdit ==
  \/ \E u \in ListingUsers, l \in ListingIds : edit_listing_select(u, l)
  \/ \E u \in ListingUsers, l \in ListingIds : edit_field_price(u, l)
  \/ \E u \in ListingUsers, t \in EditPriceInputs : handle_edit_price(u, t)
  \/ \E l \in ListingIds : admin_accept(ADMIN_ID, l)

SpecForeignEdit == Init /\ [][NextForeignEdit]_vars

\* every flow from its entry to its final step: the newcomer registers, user 2
\* changes the location, creates a listing, edits photos, price and
\* description of listing 2 and searches
NextFlows ==
  \/ cmd_start(NEWCOMER, <<"/">> \o START)
  \/ process_city(NEWCOMER, OMSK)
  \/ \E t \in {DASH, <<"5">>} : process_microdistrict(NEWCOMER, t)
  \/ settings_change_city(2)
  \/ settings_process_city(2, MOSKVA)
  \/ \E t \in {DASH, <<"5">>} : settings_process_microdistrict(2, t)
  \/ create_listing_init(2)
  \/ handle_listing_photo(2, SKIP, NoPhoto)
  \/ handle_listing_category(2, <<"eh", "l", "e", "k">>)
  \/ handle_listing_condition(2, NOVOE)
  \/ handle_listing_price(2, RUB_1500)
  \/ handle_listing_title(2, TELEFON)
  \/ handle_listing_description(2, HI)
  \/ edit_field_photo(2, 2)
  \/ edit_field_price(2, 2)
  \/ edit_field_desc(2, 2)
  \/ \E t \in {SKIP, HI} : handle_edit_photos(2, t, NoPhoto)
  \/ handle_edit_price(2, RUB_1500)
  \/ handle_edit_category(2, <<"eh", "l", "e", "k">>)
  \/ handle_edit_description(2, HI)
  \/ search_menu(2)
  \/ process_search_filters(2, "skip")
  \/ perform_search(2, DASH)

SpecFlows == Init /\ [][NextFlows]_vars

\* 99999999999999999999
TWENTY_NINES == [i \in 1..20 |-> "9"]

\* "1500 rub", "hi", a message without text, 007, twenty nines
PriceStepInputs == {RUB_1500, HI, <<>>, <<"0", "0", "7">>, TWENTY_NINES}

\* user 2 reaches the price step of the creation flow, user 11 that of the
\* edit flow of listing 1, and they answer it; the creation flow is given the
\* prices below 2^31
NextPriceStep ==
  \/ create_listing_init(2)
  \/ handle_listing_photo(2, SKIP, NoPhoto)
  \/ handle_listing_category(2, <<"eh", "l", "e", "k">>)
  \/ handle_listing_condition(2, NOVOE)
  \/ \E t \in PriceStepInputs \ {TWENTY_NINES} : handle_listing_price(2, t)
  \/ \E l \in own_listings(11) : edit_field_price(11, l)
  \/ \E t \in PriceStepInputs : handle_edit_price(11, t)

SpecPriceStep == Init /\ [][NextPriceStep]_vars

\* "ehlek", "RA" (in "Transport" and in "Rabota"), "hi", a blank text, a
\* message without text
CategoryStepInputs ==
  {<<"eh", "l", "e", "k">>, <<"R", "A">>, HI, <<" ">>, <<>>}

\* user 2 reaches the category step of the creation flow, user 11 that of the
\* edit flow of listing 1, and they answer it
NextCategoryStep ==
  \/ create_listing_init(2)
  \/ handle_listing_photo(2, SKIP, NoPhoto)
  \/ \E t \in CategoryStepInputs : handle_listing_category(2, t)
  \/ handle_listing_condition(2, NOVOE)
  \/ edit_field_desc(11, 1)
  \/ \E t \in CategoryStepInputs : handle_edit_category(11, t)
  \/ handle_edit_description(11, HI)

SpecCategoryStep == Init /\ [][NextCategoryStep]_vars

\* "/mute", "/unmute", "hi"
MuteInputs == {<<"/">> \o MUTE, <<"/">> \o UNMUTE, HI}

\* user 2 sends /mute and /unmute when idle, in the chat on listing 1 and at
\* the title step of the creation flow; each message goes to the handler
\* that MessageRoute names
NextMuteInFlow ==
  \/ start_chat(2, 1)
  \/ process_back_main(2)
  \/ create_listing_init(2)
  \/ handle_listing_photo(2, SKIP, NoPhoto)
  \/ handle_listing_category(2, <<"eh", "l", "e", "k">>)
  \/ handle_listing_condition(2, NOVOE)
  \/ handle_listing_price(2, RUB_1500)
  \/ \E t \in MuteInputs : cmd_mute(2, t)
  \/ \E t \in MuteInputs : cmd_unmute(2, t)
  \/ \E t \in MuteInputs : handle_chat_message_upto(2, t, TRUE, MaxMessages)
  \/ \E t \in MuteInputs : handle_listing_title(2, t)

SpecMuteInFlow == Init /\ [][NextMuteInFlow]_vars

\* user 2 opens the chat on listing 1 and writes; user 11 opens it from the
\* chat list and answers; the admin's account sends an open_chat callback
\* with the id of that chat and any partner, and writes
NextOpenChat ==
  \/ start_chat(2, 1)
  \/ \E i \in 1..Len(chats) : open_chat(11, i)
  \/ \E partner_id \in {2, 11, ADMIN_ID} :
       open_chat_callback(ADMIN_ID, chat_id_from_users(2, 11, 1), partner_id, 1)
  \/ \E u \in {2, 11, ADMIN_ID} :
       handle_chat_message_upto(u, IntToStr(Len(messages) + 1), TRUE, MaxMessages)

SpecOpenChat == Init /\ [][NextOpenChat]_vars

\* two users in their own flows while a chat partner writes and the admin
\* decides on their listings
NextNeighbours ==
  \/ start_chat(2, 1)
  \/ \E i \in 1..Len(chats) : open_chat(11, i)
  \/ \E u \in ListingUsers :
       handle_chat_message_upto(u, IntToStr(Len(messages) + 1), TRUE, MaxMessages)
  \/ \E l \in own_listings(11) : edit_field_price(11, l)
  \/ handle_edit_price(11, RUB_1500)
  \/ search_menu(ADMIN_ID)
  \/ cmd_moderate(ADMIN_ID, <<"/">> \o MODERATE)
  \/ \E l \in ListingIds : admin_accept(ADMIN_ID, l)
  \/ \E l \in ListingIds : admin_deny(ADMIN_ID, l)

SpecNeighbours == Init /\ [][NextNeighbours]_vars

\* user 2 changes the stored location, with and without a microdistrict; the
\* newcomer registers; both may leave the flow by /start or the back button
NextLocation ==
  \/ \E u \in {2, NEWCOMER} : cmd_start(u, <<"/">> \o START)
  \/ process_city(NEWCOMER, OMSK)
  \/ \E t \in {DASH, <<"5", "a">>} : process_microdistrict(NEWCOMER, t)
  \/ settings_menu(2)
  \/ settings_change_city(2)
  \/ \E t \in {OMSK, MOSKVA} : settings_process_city(2, t)
  \/ \E t \in {DASH, <<"5", "a">>} : settings_process_microdistrict(2, t)
  \/ process_back_main(2)

SpecLocation == Init /\ [][NextLocation]_vars

\* users 2 and 11 run the creation flow with valid inputs, each input sent
\* after the previous one was answered; the description messages, which may be
\* delivered twice, are handled as tasks
NextDescriptionRace ==
  \/ \E u \in ListingUsers : tasks = <<>> /\ create_listing_init(u)
  \/ \E u \in ListingUsers : tasks = <<>> /\ handle_listing_photo(u, SKIP, NoPhoto)
  \/ \E u \in ListingUsers :
       tasks = <<>> /\ handle_listing_category(u, <<"eh", "l", "e", "k">>)
  \/ \E u \in ListingUsers : tasks = <<>> /\ handle_listing_condition(u, NOVOE)
  \/ \E u \in ListingUsers : tasks = <<>> /\ handle_listing_price(u, RUB_1500)
  \/ \E u \in ListingUsers : tasks = <<>> /\ handle_listing_title(u, HI)
  \/ \E u \in ListingUsers : handle_listing_description_begin(u, HI)
  \/ \E i \in 1..MaxTasks : handle_listing_description_finish(i)

SpecDescriptionRace == Init /\ [][NextDescriptionRace]_vars

\* the inputs of the creation steps that the steps accept: a photo or
\* "Propustit'", "ehlek", a condition, "1500 rub" or twenty nines, a title, a
\* description
CreationStep(u) ==
  \/ \E m \in {<<<<>>, "f1">>, <<SKIP, NoPhoto>>} : handle_listing_photo(u, m[1], m[2])
  \/ handle_listing_category(u, <<"eh", "l", "e", "k">>)
  \/ \E t \in {NOVOE, BU} : handle_listing_condition(u, t)
  \/ \E t \in {RUB_1500, TWENTY_NINES} : handle_listing_price(u, t)
  \/ \E t \in {TELEFON, HI} : handle_listing_title(u, t)
  \/ handle_listing_description(u, HI)

\* a user in the idle state starts the creation flow while the store has room
\* for the listing of every started flow
CreationStart(u) ==
  /\ state[u] = NoState
  /\ Len(listings) + Cardinality({v \in ListingUsers : state[v] # NoState}) < MaxListings
  /\ create_listing_init(u)

\* creation flows without cancelling or flow-switching events
NextCreationRun ==
  \/ \E u \in ListingUsers : CreationStart(u)
  \/ \E u \in ListingUsers : CreationStep(u)

\* every update sent is eventually handled: the dispatcher runs the handler of
\* each message of a user who keeps answering the prompts
SpecCreationRun ==
  /\ Init
  /\ [][NextCreationRun]_vars
  /\ \A u \in ListingUsers : WF_vars(CreationStep(u))

SpecFetch == Init /\ [][ProbeStore \/ ProbeFetch]_vars

----------------------------------------------------------------------------
(* Claims *)

\* C1: chat_id_from_users(a, b, L) = chat_id_from_users(b, a, L) for all user
\* ids a, b and listing ids L: the chat id computed for (a, b, L) is the one
\* computed with the two users swapped.
C1_ChatIdSymmetric ==
  probe.fn = "chat_id_from_users" =>
    probe.out = chat_id_from_users(probe.b, probe.a, probe.l)

C1_Witness == probe.fn = "chat_id_from_users" /\ probe.a = 11 /\ probe.b = 2

ChatIdsOfModel ==
  {chat_id_from_users(a, b, l) : a \in ChatUsers, b \in ChatUsers, l \in 1..MaxListings}

\* C2: however many start_chat handlers run ensure_chat with the same chat id,
\* one after the other or interleaved between the SELECT and the INSERT, table
\* chats never holds two rows with that chat id, and once an ensure_chat has
\* returned or raised it holds exactly one.
C2_OneChatRecord ==
  /\ \A c \in ChatIdsOfModel : Cardinality(chat_rows(chats, c)) <= 1
  /\ \A i \in 1..Len(tasks) :
       (tasks[i].h = "start_chat" /\ tasks[i].pc = "render") =>
         Cardinality(chat_rows(chats, task_chat_id(tasks[i]))) = 1
  /\ (ev.h = "start_chat" /\ ev.answer \in {"", "raised"}) =>
       Cardinality(chat_rows(chats,
         chat_id_from_users(ev.u, listings[ev.listing].owner_id, ev.listing))) = 1

\* two presses interleaved: the second INSERT met the row of the first
C2_Witness == ev.h = "start_chat" /\ ev.answer = "raised"

\* C3: a chat message with a non-blank text adds exactly one row to table
\* messages, the row of that message, and afterwards every message of that
\* chat whose receiver is the sender has its read flag set.
C3_StoreMessage ==
  [][\A u \in ChatUsers, t \in ChatTexts, d \in BOOLEAN :
       (ev'.h = "handle_chat_message" /\ handle_chat_message(u, t, d) /\ Strip(t) # <<>>) =>
         /\ Len(messages') = Len(messages) + 1
         /\ \A i \in 1..Len(messages) :
              [messages'[i] EXCEPT !.read = FALSE] = [messages[i] EXCEPT !.read = FALSE]
         /\ [messages'[Len(messages')] EXCEPT !.read = FALSE] =
              message_row(data[u].active_chat, u, data[u].partner_id,
                          data[u].listing_id, Strip(t))
         /\ \A i \in 1..Len(messages') :
              (messages'[i].chat_id = data[u].active_chat /\ messages'[i].receiver_id = u)
                => messages'[i].read]_vars

\* a reply was stored: the earlier message of the other side is read
C3_Witness ==
  \E i \in 1..Len(messages), j \in 1..Len(messages) :
    /\ i < j
    /\ messages[i].chat_id = messages[j].chat_id
    /\ messages[i].receiver_id = messages[j].sender_id
    /\ messages[i].read

\* C4: handling a chat message sends a forward notification to the receiver
\* if and only if the message was stored and the receiver is not muted.
C4_ForwardUnlessMuted ==
  [][\A u \in ChatUsers, t \in ChatTexts, d \in BOOLEAN :
       (ev'.h = "handle_chat_message" /\ handle_chat_message(u, t, d)) =>
         ((\E s \in sent' : s.kind = "forward" /\ s.to = Get(data[u], "partner_id", 0))
            <=> (Len(messages') = Len(messages) + 1
                 /\ ~is_user_muted(Get(data[u], "partner_id", 0))))]_vars

\* a message to a muted receiver was stored and nothing was sent
C4_Witness ==
  /\ ev.h = "handle_chat_message" /\ ev.answer = "stored"
  /\ is_user_muted(data[ev.u].partner_id)
  /\ sent = {}

\* C5: when the forward notification of a chat message fails, the message of
\* that update is in table messages (its last row).
C5_StoredDespiteSendFailure ==
  (ev.h = "handle_chat_message" /\ ev.answer = "send raised") =>
    /\ messages # <<>>
    /\ messages[Len(messages)].sender_id = ev.u
    /\ messages[Len(messages)].chat_id = data[ev.u].active_chat
    /\ messages[Len(messages)].receiver_id = data[ev.u].partner_id
    /\ \E s \in sent : s.kind = "forward" /\ s.ref = 0

C5_Witness ==
  /\ ev.h = "handle_chat_message" /\ ev.answer = "send raised"
  /\ Len(messages) = 2


\* C6: in every reachable state no listing has more than 3 photo rows, also
\* when several photo messages of the owner are handled as interleaved tasks.
C6_PhotoLimit ==
  \A l \in ListingIds : Len(listing_photos(photos, l)) <= PHOTO_LIMIT

\* C7: when an edit flow on a listing completes (photos, price, or category
\* and description), the listing is pending afterwards, whatever its status
\* was, and a moderation notification for it is sent to the admin.
C7_EditReturnsToPending ==
  [][(ev'.answer = "finished"
      /\ ev'.h \in {"handle_edit_photos", "handle_edit_price", "handle_edit_description"}) =>
       LET l == Get(data[ev'.u], "edit_listing_id", 0)
       IN /\ l \in ListingIds
          /\ listings'[l].status = "pending"
          /\ Sent(ADMIN_ID, "moderation", l) \in sent']_vars

\* the approved listing 1 and the denied listing 2 have both been edited
C7_Witness ==
  /\ ev.answer = "finished" /\ ev.h = "handle_edit_description"
  /\ listings[1].status = "pending"
  /\ listings[2].status = "pending"

\* C8: an accept or deny by a user other than the admin changes the status of
\* no listing, sends no notification to the owner and answers the user with
\* the permission rejection.
C8_NonAdminRejected ==
  [][\A u \in USERS \ {ADMIN_ID}, l \in ListingIds :
       (ev'.h \in {"admin_accept", "admin_deny"}
        /\ (admin_accept(u, l) \/ admin_deny(u, l))) =>
         /\ \A k \in ListingIds : listings'[k].status = listings[k].status
         /\ ~\E s \in sent' : s.kind \in {"accepted", "denied"}
         /\ ev'.answer = "no permission"]_vars

\* the owner of a pending listing pressed accept on it and was rejected
C8_Witness ==
  /\ ev.h = "admin_accept" /\ ev.answer = "no permission"
  /\ ev.u = listings[ev.listing].owner_id
  /\ listings[ev.listing].status = "pending"

\* C9: the status of a listing changes to approved or to denied only from
\* pending: no step takes a listing from approved to denied or from denied to
\* approved.
C9_OnlyFromPending ==
  [][\A l \in ListingIds :
       (listings'[l].status # listings[l].status
        /\ listings'[l].status \in {"approved", "denied"}) =>
         listings[l].status = "pending"]_vars

\* C10: the description step of the creation flow adds one listing: the draft
\* collected in the flow with the description of the message, pending, owned
\* by the sender, with the photos of the draft as its photos, and the admin
\* is sent a moderation notification for it.
C10_CreationPersistsDraft ==
  [][\A u \in ListingUsers, t \in DescriptionInputs :
       (ev'.h = "handle_listing_description" /\ handle_listing_description(u, t)) =>
         LET d == data[u]
             id == Len(listings) + 1
         IN /\ Len(listings') = id
            /\ SubSeq(listings', 1, Len(listings)) = listings
            /\ listings'[id] =
                 [owner_id |-> u, city |-> users[u].city,
                  microdistrict |-> users[u].microdistrict,
                  category |-> d.category, condition |-> d.condition,
                  title |-> d.title, description |-> Truncate(Strip(t), DESC_MAX),
                  price |-> d.price, status |-> "pending"]
            /\ listing_photos(photos', id) = d.photos
            /\ \A l \in ListingIds : listing_photos(photos', l) = listing_photos(photos, l)
            /\ Sent(ADMIN_ID, "moderation", id) \in sent']_vars

\* user 2 has created a listing with three photos
C10_Witness ==
  /\ ev.h = "handle_listing_description" /\ ev.u = 2
  /\ listings[ev.listing].owner_id = 2
  /\ listings[ev.listing].status = "pending"
  /\ Len(listing_photos(photos, ev.listing)) = PHOTO_LIMIT

\* C11: an accept or a deny of the admin on an existing listing sends the
\* owner of that listing one outcome notification, and its outcome is the
\* status the handler wrote: accepted with approved, denied with denied.
C11_OwnerNotified ==
  [][\A l \in ListingIds :
       (ev'.h \in {"admin_accept", "admin_deny"}
        /\ (admin_accept(ADMIN_ID, l) \/ admin_deny(ADMIN_ID, l))) =>
         LET outcome == IF listings'[l].status = "approved" THEN "accepted" ELSE "denied"
         IN /\ listings'[l].status \in {"approved", "denied"}
            /\ {s \in sent' : s.kind \in {"accepted", "denied"}} =
                 {Sent(listings[l].owner_id, outcome, l)}]_vars

\* the admin denied listing 1 and its owner, user 11, was told so
C11_Witness ==
  /\ ev.h = "admin_deny" /\ ev.u = ADMIN_ID /\ ev.listing = 1
  /\ listings[1].status = "denied"
  /\ Sent(11, "denied", 1) \in sent

\* C12: a listing that is not approved is not shown: every listing of a search
\* result, every listing of a favourites list and every listing surface
\* rendered by a view request is approved at that moment, so a listing that
\* its owner edited after the approval stays hidden while it is pending.
C12_OnlyApprovedShown ==
  \A s \in sent :
    s.kind \in {"result", "favourite", "listing surface"} =>
      listings[s.ref].status = "approved"

\* listing 1, approved at first, was edited by its owner and waits for the
\* admin; user 2 had it among the favourites, asked to view it and got no
\* listing surface
C12_Witness ==
  /\ listings[1].status = "pending"
  /\ favourite_rows(favourites, 2, 1) # {}
  /\ ev.h = "view_listing" /\ ev.u = 2 /\ ev.listing = 1
  /\ ev.answer = "not available"
  /\ sent = {}

\* C13: the favourites hold at most one record per pair (user, listing), and
\* adding a favourite, also one that exists already, raises no error: the
\* update that adds it is handled to its end.
C13_AddFavouriteIdempotent ==
  /\ \A u \in USERS : \A l \in ListingIds :
       Cardinality(favourite_rows(favourites, u, l)) <= 1
  /\ ev.h = "favourite_listing" => ev.answer # "raised"

\* C14: a button press that the surface of the user's current (flow, step)
\* does not offer is a no-op. Here the user is in a step of the search flow
\* and presses the favourite or unfavourite button of an older listing
\* surface: (flow, step), context bag and stored records stay as they are.
C14_StaleButtonNoOp ==
  [][\A u \in USERS :
       (/\ state[u] \in {"SearchStates:search_init", "SearchStates:search_query"}
        /\ ev'.u = u
        /\ ev'.h \in {"favourite_listing", "unfavourite_listing"}
        /\ ev'.h \notin offered(state[u])) =>
         UNCHANGED <<state, data, users, listings, photos, favourites, chats, messages>>]_vars

\* C15: a step that rejects its input (a city that is too short or has a
\* digit, a microdistrict in Latin letters, a text that names no category, a
\* condition that is not in the vocabulary, a text that is neither a photo nor
\* "skip" in the photo step) leaves the user's (flow, step), the context bag
\* and the store as they were and sends one corrective message; nothing in the
\* state counts the rejections, so this holds for every further invalid input.
C15_InvalidInputRejected ==
  [][(\/ \E t \in {<<"O">>, OMSK \o <<"1">>} :
           process_city(NEWCOMER, t) \/ settings_process_city(NEWCOMER, t)
      \/ process_microdistrict(NEWCOMER, <<"l.x", "l.y">>)
      \/ settings_process_microdistrict(NEWCOMER, <<"l.x", "l.y">>)
      \/ handle_listing_category(NEWCOMER, HI)
      \/ handle_listing_condition(NEWCOMER, Lower(NOVOE))
      \/ handle_listing_photo(NEWCOMER, HI, NoPhoto)) =>
       /\ UNCHANGED <<fsmVars, storeVars>>
       /\ sent' = {Sent(NEWCOMER, "corrective", 0)}]_vars

\* the newcomer sent a city that the pattern rejects: still in the city step
\* of the registration, with an empty bag, no user row and a corrective message
C15_Witness ==
  /\ ev.h = "process_city" /\ ev.u = NEWCOMER
  /\ sent = {Sent(NEWCOMER, "corrective", 0)}
  /\ state[NEWCOMER] = "Registration:awaiting_city"
  /\ data[NEWCOMER] = EmptyBag
  /\ NEWCOMER \notin DOMAIN users

\* C16: entering a flow replaces the context bag. Here the flow entered is the
\* chat: a user who is in the chat has a bag with the fields start_chat and
\* open_chat set (active_chat, partner_id, listing_id, offset) and no field of
\* the flow that was active before.
C16_BagOnlyNewFlow ==
  \A u \in USERS :
    state[u] = "ChatStates:chatting" =>
      DOMAIN data[u] \subseteq {"active_chat", "partner_id", "listing_id", "offset"}

\* C17: a press of back_main, in whatever (flow, step) the user is, leaves the
\* user idle with an empty context bag and a tracked surface, the main menu,
\* on screen; it creates or changes no listing, photo, chat or message.
C17_BackToIdle ==
  [][\A u \in USERS :
       (ev'.h = "process_back_main" /\ ev'.u = u) =>
         /\ state'[u] = NoState
         /\ data'[u] = EmptyBag
         /\ SESSIONS'[u] # 0 /\ SESSIONS'[u] \in live'[u]
         /\ UNCHANGED <<users, listings, photos, favourites, chats, messages>>]_vars

\* the newcomer, who opened a chat on listing 1 before, pressed back: idle,
\* empty bag, a tracked surface, and the chat record is still there
C17_Witness ==
  /\ ev.h = "process_back_main" /\ ev.u = NEWCOMER
  /\ state[NEWCOMER] = NoState /\ data[NEWCOMER] = EmptyBag
  /\ SESSIONS[NEWCOMER] # 0
  /\ Len(chats) = 1

\* C18: the updates of one user are handled one at a time: while a handler of
\* a user's update is suspended between its read of the user's context bag and
\* its write of it, no second handler of the same user is in flight.
C18_SerializedPerUser ==
  \A i \in 1..Len(tasks) : \A j \in 1..Len(tasks) :
    tasks[i].u = tasks[j].u => i = j

\* C19: a call of ensure_session_message for a user with a tracked surface
\* whose edit succeeds sends no new surface and leaves the tracked id as it
\* is; a call with no tracked surface, or whose edit fails, sends exactly one
\* new surface and tracks its id; the id returned is the id tracked after the
\* call in both cases.
C19_EnsureSessionMessage ==
  [][\A u \in USERS : \A editOk \in BOOLEAN :
       (ev'.u = u /\ RenderWith(u, editOk)) =>
         /\ IF SESSIONS[u] # 0 /\ editOk
            THEN /\ live'[u] = live[u]
                 /\ SESSIONS'[u] = SESSIONS[u]
            ELSE /\ Cardinality(live'[u] \ live[u]) = 1
                 /\ SESSIONS'[u] \in live'[u] \ live[u]
         /\ ensure_session_message(u, editOk)[3] = SESSIONS'[u]]_vars

\* the newcomer had a tracked surface whose edit failed: a second surface was
\* sent on the back press and is the tracked one
C19_Witness ==
  /\ ev.h = "process_back_main" /\ ev.u = NEWCOMER
  /\ SESSIONS[NEWCOMER] = 2 /\ nextMsgId[NEWCOMER] = 2

\* C20: each user has at most one live control surface, a message with
\* buttons that was sent and not deleted, and it is the tracked one.
C20_OneLiveSurface ==
  \A u \in USERS :
    /\ Cardinality(live[u]) <= 1
    /\ live[u] \subseteq {SESSIONS[u]}

\* C21: fetch_messages returns the messages of the chat in the order in which
\* they were stored, for both values of reverse: with reverse it is the window
\* of at most `limit` messages that ends `offset` messages before the newest,
\* without reverse the window that starts `offset` messages after the oldest.
C21_FetchWindow ==
  probe.fn = "fetch_messages" =>
    LET asc == SelectSeq(messages, LAMBDA m : m.chat_id = probe.chat_id)
        n == Len(asc)
        first == IF probe.reverse THEN n - probe.offset - probe.limit + 1
                 ELSE probe.offset + 1
        last == IF probe.reverse THEN n - probe.offset
                ELSE probe.offset + probe.limit
        lo == IF first < 1 THEN 1 ELSE first
        hi == IF last > n THEN n ELSE last
    IN probe.out = [i \in 1..(IF hi < lo THEN 0 ELSE hi - lo + 1) |-> asc[lo + i - 1]]

\* four messages are stored, the third of them in the other chat; the fetch
\* with reverse, offset 1 and limit 2 gave the first and the second message
C21_Witness ==
  /\ probe.fn = "fetch_messages" /\ probe.reverse
  /\ probe.offset = 1 /\ probe.limit = 2
  /\ Len(messages) = 4
  /\ messages[3].chat_id # probe.chat_id
  /\ Len(probe.out) = 2
  /\ probe.out[1].text = <<"1">> /\ probe.out[2].text = <<"2">>

\* C22: the list that "load more" renders with context offset k is the newest
\* k + 5 messages of the active chat, all of them if the chat has fewer, each
\* once and in the order in which they were stored, also when a message was
\* stored in the chat between the two fetches of the handler.
C22_LoadMoreWindow ==
  \A s \in sent :
    (ev.h = "load_more_messages" /\ s.kind = "chat window") =>
      LET asc == SelectSeq(messages,
                           LAMBDA m : m.chat_id = Get(data[ev.u], "active_chat", <<>>))
          n == Len(asc)
          k == Get(data[ev.u], "offset", 0) - CHAT_PAGE
          shown == IF n < k + CHAT_PAGE THEN n ELSE k + CHAT_PAGE
      IN s.ref = [i \in 1..shown |-> asc[n - shown + i].text]

\* C23: a search shows at most SEARCH_LIMIT listings, newest first (ids are
\* assigned in creation order); each of them is approved, lies in the city
\* stored for the searcher when the query is handled and satisfies the
\* category and the condition filter of the bag (a filter that was skipped or
\* never chosen constrains nothing). The microdistrict plays no part: when
\* the result of a search without words is shorter than SEARCH_LIMIT it holds
\* every approved listing of the city that satisfies the filters.
C23_SearchResult ==
  [][\A t \in {DASH, <<"l", "e", "f", "o", "n">>} :
       perform_search(2, t) =>
         \A s \in sent' :
           s.kind = "result list" =>
             LET category == Get(data[2], "category", <<>>)
                 condition == Get(data[2], "condition", <<>>)
                 fits(l) == /\ listings[l].status = "approved"
                            /\ listings[l].city = users[2].city
                            /\ (category # <<>> => listings[l].category = category)
                            /\ (condition # <<>> => listings[l].condition = condition)
             IN /\ Len(s.ref) <= SEARCH_LIMIT
                /\ \A i \in 1..Len(s.ref) : s.ref[i] \in ListingIds /\ fits(s.ref[i])
                /\ \A i \in 1..(Len(s.ref) - 1) : s.ref[i] > s.ref[i + 1]
                /\ (t = DASH /\ Len(s.ref) < SEARCH_LIMIT) =>
                     \A l \in ListingIds : fits(l) => \E i \in 1..Len(s.ref) : s.ref[i] = l]_vars

\* a search with the category filter chosen and the condition filter skipped
\* was cut at SEARCH_LIMIT and shows a listing of another microdistrict than
\* the searcher's
C23_Witness ==
  /\ ev.h = "perform_search" /\ ev.u = 2
  /\ users[2].microdistrict = <<>>
  /\ \E s \in sent :
       /\ s.kind = "result list"
       /\ Len(s.ref) = SEARCH_LIMIT
       /\ \E i \in 1..Len(s.ref) : listings[s.ref[i]].microdistrict # <<>>
       /\ \A i \in 1..Len(s.ref) : listings[s.ref[i]].category = ELEKTRONIKA

\* C24: after a view_listing callback on a listing that is missing or not
\* approved, the user is in the idle state with an empty context bag.
C24_NotAvailableToRoot ==
  (ev.h = "view_listing" /\ ev.answer = "not available") =>
    (state[ev.u] = NoState /\ data[ev.u] = EmptyBag)

\* C25: in every step the stored messages of before are still stored, in the
\* same order and with the same chat, sender, receiver, listing and text, and
\* a message that was read is still read.
C25_AppendOnly ==
  [][/\ Len(messages') >= Len(messages)
     /\ \A i \in 1..Len(messages) :
          /\ [messages'[i] EXCEPT !.read = FALSE] = [messages[i] EXCEPT !.read = FALSE]
          /\ (messages[i].read => messages'[i].read)]_vars

\* a message of user 2 that user 11 has read, and a later message of user 2
\* that is still unread, after user 2 wrote last
C25_Witness ==
  /\ ev.h = "handle_chat_message" /\ ev.u = 2 /\ ev.answer = "stored"
  /\ \E i, j \in 1..Len(messages) :
       /\ i < j
       /\ messages[i].sender_id = 2 /\ messages[i].read
       /\ messages[j].sender_id = 2 /\ ~messages[j].read

\* C26: a step of the edit flow leaves every listing that the editing user
\* does not own, and its photos, as they were.
C26_OnlyOwnerEdits ==
  [][ev'.h \in {"handle_edit_photos", "handle_edit_price", "handle_edit_description"} =>
       \A l \in ListingIds :
         listings[l].owner_id # ev'.u =>
           /\ listings'[l] = listings[l]
           /\ listing_photos(photos', l) = listing_photos(photos, l)]_vars

\* C27: after the final step of a flow was handled to its end (the
\* microdistrict of a registration or of a change of location was accepted,
\* the description of a new listing was stored, an edit was finished, a
\* search query was answered), the user is idle and the context bag is empty.
C27_FinalStepToIdle ==
  LET accepted ==
        \/ ev.h = "process_microdistrict" /\ Sent(ev.u, "city saved", 0) \in sent
        \/ ev.h = "settings_process_microdistrict" /\ Sent(ev.u, "city updated", 0) \in sent
        \/ ev.h = "handle_listing_description"
        \/ /\ ev.h \in {"handle_edit_photos", "handle_edit_price", "handle_edit_description"}
           /\ ev.answer = "finished"
        \/ ev.h = "perform_search"
  IN accepted => (state[ev.u] = NoState /\ data[ev.u] = EmptyBag)

\* user 2 has finished the edit of category and description of listing 2
\* after creating listing 3, and the newcomer has registered
C27_Witness ==
  /\ ev.h = "handle_edit_description" /\ ev.u = 2 /\ ev.answer = "finished"
  /\ state[2] = NoState /\ data[2] = EmptyBag
  /\ listings[2].status = "pending"
  /\ Len(listings) = 3 /\ listings[3].owner_id = 2
  /\ NEWCOMER \in Registered

\* C28: a chat record keeps its id, participants and listing; a new record
\* carries the time of its creation; the last-activity time of a record
\* changes only in a step that stores a message of that chat, so a chat that
\* is opened again and the other chats keep theirs.
C28_LastActivity ==
  [][/\ Len(chats') >= Len(chats)
     /\ \A i \in 1..Len(chats) :
          /\ [chats'[i] EXCEPT !.last_message_time = 0] =
               [chats[i] EXCEPT !.last_message_time = 0]
          /\ chats'[i].last_message_time # chats[i].last_message_time =>
               /\ Len(messages') = Len(messages) + 1
               /\ messages'[Len(messages')].chat_id = chats[i].chat_id
     /\ \A i \in (Len(chats) + 1)..Len(chats') : chats'[i].last_message_time = clock]_vars

\* two chats exist, the chat on listing 1 was opened again by user 2 and a
\* message was stored in it; the other chat still has an older last activity
C28_Witness ==
  /\ ev.h = "handle_chat_message" /\ ev.u = 2 /\ ev.listing = 1
  /\ ev.answer \in {"stored", "send raised"}
  /\ \E i, j \in 1..Len(chats) :
       /\ chats[i].listing_id = 1 /\ chats[j].listing_id = 2
       /\ i < j
       /\ chats[j].last_message_time < chats[i].last_message_time

\* C29: the handler of a creation step runs in its step and leaves the user
\* in the same step or in the next one of photo, category, condition, price,
\* title, description (the description step ends the flow); the listings
\* table grows only in the description step, by one row, and every listing
\* has a category of CATEGORIES and a condition of CONDITIONS.
C29_CreationOrder ==
  [][LET steps == <<"NewListing:waiting_for_photo", "NewListing:waiting_for_category",
                    "NewListing:waiting_for_condition", "NewListing:waiting_for_price",
                    "NewListing:waiting_for_title", "NewListing:waiting_for_description",
                    NoState>>
         handlers == <<"handle_listing_photo", "handle_listing_category",
                       "handle_listing_condition", "handle_listing_price",
                       "handle_listing_title", "handle_listing_description">>
     IN /\ \A k \in 1..Len(handlers) :
             ev'.h = handlers[k] =>
               /\ state[ev'.u] = steps[k]
               /\ state'[ev'.u] \in {steps[k], steps[k + 1]}
        /\ Len(listings') # Len(listings) =>
             /\ ev'.h = "handle_listing_description"
             /\ Len(listings') = Len(listings) + 1
        /\ \A l \in 1..Len(listings') :
             /\ \E i \in 1..Len(CATEGORIES) : listings'[l].category = CATEGORIES[i]
             /\ \E i \in 1..Len(CONDITIONS) : listings'[l].condition = CONDITIONS[i]]_vars

\* the description step has inserted listing 3 with the category that the
\* text "ehlek" named, while the other user is at the condition step
C29_Witness ==
  /\ ev.h = "handle_listing_description" /\ ev.listing = 3
  /\ Len(listings) = 3
  /\ listings[3].category = ELEKTRONIKA /\ listings[3].condition = NOVOE
  /\ state[ev.u] = NoState
  /\ \E u \in ListingUsers : u # ev.u /\ state[u] = "NewListing:waiting_for_condition"

\* C30: a message at a price step is always taken: the creation flow is at
\* the title step with the price in its bag, the edit flow has ended with
\* the price in the listing.
C30_PriceStepAdvances ==
  /\ ev.h = "handle_listing_price" =>
       /\ state[ev.u] = "NewListing:waiting_for_title"
       /\ Get(data[ev.u], "price", -1) >= 0
  /\ ev.h = "handle_edit_price" =>
       /\ state[ev.u] = NoState
       /\ ev.listing \in ListingIds => listings[ev.listing].price >= 0

\* C31: a text at the category step of the creation flow (user 2) or of the
\* edit flow (user 11) that, stripped, is non-empty and contained in a
\* category without regard to case is accepted, and the first such category
\* of CATEGORIES goes into the bag; any other message, one without text
\* included, gets a corrective reply and leaves step and bag as they were.
C31_CategoryStep ==
  [][\A t \in CategoryStepInputs :
       LET names(i) == Strip(t) # <<>> /\ Contains(Lower(CATEGORIES[i]), Lower(Strip(t)))
           named == {i \in 1..Len(CATEGORIES) : names(i)}
           first == CHOOSE i \in named : \A j \in named : i <= j
           step(u, key, next) ==
             IF named = {}
             THEN /\ state'[u] = state[u]
                  /\ data'[u] = data[u]
                  /\ Sent(u, "corrective", 0) \in sent'
             ELSE /\ state'[u] = next
                  /\ data'[u] = Put(data[u], key, CATEGORIES[first])
       IN /\ handle_listing_category(2, t) =>
               step(2, "category", "NewListing:waiting_for_condition")
          /\ handle_edit_category(11, t) =>
               step(11, "edit_new_category", "EditListing:editing_description")]_vars

\* C32: /start, in whatever (flow, step) the user is, empties the context
\* bag; a user with a stored non-empty city is then idle with a tracked
\* surface, the main menu, on screen, any other user is at the city step of
\* the registration and is sent the prompt; no user, listing, photo,
\* favourite, chat or message record is created or changed.
C32_EntryCommand ==
  [][\A u \in USERS :
       (ev'.h = "cmd_start" /\ ev'.u = u) =>
         /\ data'[u] = EmptyBag
         /\ IF u \in DOMAIN users /\ users[u].city # <<>>
            THEN /\ state'[u] = NoState
                 /\ SESSIONS'[u] # 0 /\ SESSIONS'[u] \in live'[u]
            ELSE /\ state'[u] = "Registration:awaiting_city"
                 /\ Sent(u, "prompt city", 0) \in sent'
                 /\ UNCHANGED <<SESSIONS, live>>
         /\ UNCHANGED <<users, listings, photos, favourites, chats, messages>>]_vars

\* the newcomer, registered in Omsk and with a chat opened on listing 1, sent
\* /start: idle, empty bag, the main menu tracked, the records as they were
C32_Witness ==
  /\ ev.h = "cmd_start" /\ ev.u = NEWCOMER
  /\ NEWCOMER \in DOMAIN users /\ users[NEWCOMER].city = OMSK
  /\ state[NEWCOMER] = NoState /\ data[NEWCOMER] = EmptyBag
  /\ SESSIONS[NEWCOMER] \in live[NEWCOMER]
  /\ Len(chats) = 1

\* C33: /mute and /unmute are never taken as input of a step: no stored
\* message and no title of a draft is the text of one of the two commands.
C33_MuteNotConsumed ==
  LET commands == {<<"/">> \o MUTE, <<"/">> \o UNMUTE}
  IN /\ \A i \in 1..Len(messages) : messages[i].text \notin commands
     /\ \A u \in USERS : Get(data[u], "title", <<>>) \notin commands

C35_MessagesMatchChats ==
  /\ \A i \in 1..Len(chats) : chats[i].user1_id # chats[i].user2_id
  /\ \A k \in 1..Len(messages) :
       LET m == messages[k] IN
       /\ m.sender_id # m.receiver_id
       /\ m.chat_id = chat_id_from_users(m.sender_id, m.receiver_id, m.listing_id)
       /\ \E i \in 1..Len(chats) :
            /\ chats[i].chat_id = m.chat_id
            /\ chats[i].listing_id = m.listing_id
            /\ {chats[i].user1_id, chats[i].user2_id} = {m.sender_id, m.receiver_id}


\* C36: a step that handles an update of one user leaves the state, the
\* context bag and the tracked surface of every other user as they were.
C36_OtherUsersUntouched ==
  [][\A b \in USERS : b # ev'.u =>
       /\ state'[b] = state[b]
       /\ data'[b] = data[b]
       /\ SESSIONS'[b] = SESSIONS[b]]_vars

\* a message of user 2 was forwarded to user 11, who is in the chat with a
\* tracked surface, or the admin decided on a listing whose owner is editing
C36_Witness ==
  \/ /\ ev.h = "handle_chat_message"
     /\ ev.u = 2
     /\ \E s \in sent : s.to = 11
     /\ state[11] = "ChatStates:chatting"
     /\ SESSIONS[11] # 0
  \/ /\ ev.h = "admin_deny"
     /\ ev.answer = "denied"
     /\ state[listings[ev.listing].owner_id] = "EditListing:editing_price"
     /\ SESSIONS[listings[ev.listing].owner_id] # 0

\* C37: when the change-location flow completes with the microdistrict
\* skipped, the stored city is the new city and the stored microdistrict is
\* empty.
C37_SkippedMicrodistrictCleared ==
  [][\A u \in USERS :
       settings_process_microdistrict(u, DASH) =>
         /\ users'[u].city = Get(data[u], "new_city", <<>>)
         /\ users'[u].microdistrict = <<>>]_vars

\* C38: the stored city and microdistrict of a user change only in the step
\* that completes the microdistrict step of a registration or change-location
\* flow; a user at a registration step has no stored city yet, so the next
\* /start sends them to registration again.
C38_LocationWrittenOnCompletion ==
  [][/\ users' # users =>
          ev'.h \in {"process_microdistrict", "settings_process_microdistrict"}
     /\ \A u \in USERS :
          state'[u] = "Registration:awaiting_microdistrict" =>
            (u \notin DOMAIN users' \/ users'[u].city = <<>>)]_vars

\* C39: a listing is inserted, and the admin notified of it, only by a step
\* that ends a run of the creation flow at its description step: one run
\* persists one listing and sends one notification.
C39_OneListingPerRun ==
  [][(Len(listings') > Len(listings) \/ \E s \in sent' : s.kind = "moderation" /\ s.ref > Len(listings))
       => /\ state[ev'.u] = "NewListing:waiting_for_description"
          /\ Len(listings') = Len(listings) + 1
          /\ Cardinality({s \in sent' : s.kind = "moderation"}) = 1]_vars

\* the pending listings of a user
pending_listings_of(u) ==
  {l \in ListingIds : listings[l].owner_id = u /\ listings[l].status = "pending"}

\* C40: a user who has started the creation flow and answers every step with
\* an input the step accepts eventually is idle with exactly one more pending
\* listing of their own in the store.
C40_CreationCompletes ==
  \A u \in ListingUsers : \A n \in 0..MaxListings :
    (state[u] = "NewListing:waiting_for_photo" /\ Cardinality(pending_listings_of(u)) = n)
      ~> (state[u] = NoState /\ Cardinality(pending_listings_of(u)) = n + 1)
====
